---- MODULE Spec2Model ----
(***************************************************************************)
(* Hybrid decision-dispatch orchestrator of CLINICAL-SUPPLY:               *)
(*   app/rules_engine.py   recommend_resupply                               *)
(*   app/orchestrator.py   Orchestrator (classification, dispatch, merge)   *)
(*   app/gemini_client.py  GeminiClient (credential rotation, retries)      *)
(*   app/depot_optimizer.py DepotOptimizer.optimize_depot_allocation        *)
(*                                                                         *)
(* Four specifications share the variables:                                *)
(*   Spec        one Orchestrator.run, the reasoning client abstracted to   *)
(*               the outcomes a logical call can have (raise / a parsed     *)
(*               result);                                                   *)
(*   SpecClient  the GeminiClient alone, request by request;                *)
(*   SpecFn      one function called on its own on bounded arguments;       *)
(*   SpecRuns    one Orchestrator without parallel dispatch, run repeatedly.*)
(* Time is counted in units of 10 seconds.  Confidence is in tenths.        *)
(***************************************************************************)
EXTENDS Integers, Sequences, FiniteSets, Bags, TLC

VARIABLES
    \* ---- Orchestrator (app/orchestrator.py)
    site_features,      \* the feature table of the run: site id -> features
    cfg,                \* llm_available and the Config switches of __init__
    pc,                 \* position of run(): idle, classify, llm, rules, done
    sites_list,         \* sites in priority order (run, lines 276-277)
    llm_sites,          \* reasoning lane
    rules_sites,        \* rule lane
    results,            \* the merged Decisions (a bag: the order of the list is not kept)
    llm_failure_count,  \* self.llm_failure_count
    batch_idx,          \* loop index of the reasoning dispatch loops
    sleeping,           \* inside time.sleep(chunk_delay) between two batches
    tasks,              \* futures of the parallel individual dispatch
    rate_limiter,       \* free permits of the Semaphore
    call_log,           \* history: what the reasoning call made for each site did
    \* ---- GeminiClient (app/gemini_client.py)
    key_cooldown,       \* self.key_cooldown[k] - time.time(), floored at 0: the time
                        \* left until credential k is out of cooldown
    key_failures,       \* self.key_failures
    current_key_index,  \* self.current_key_index
    stack,              \* active frames of _call_gemini_api (it is recursive)
    call,               \* the logical call in progress and its history
    selection,          \* history: the last run of _get_next_available_key
    \* ---- one function of the program called on its own
    fn_call,            \* the function and its arguments
    fn_result           \* what it returned

orch_vars == <<site_features, cfg, pc, sites_list, llm_sites, rules_sites, results,
               llm_failure_count, batch_idx, sleeping, tasks, rate_limiter, call_log>>
client_vars == <<key_cooldown, key_failures, current_key_index, stack, call, selection>>
fn_vars == <<fn_call, fn_result>>
vars == <<site_features, cfg, pc, sites_list, llm_sites, rules_sites, results,
          llm_failure_count, batch_idx, sleeping, tasks, rate_limiter, call_log,
          key_cooldown, key_failures, current_key_index, stack, call, selection,
          fn_call, fn_result>>

----------------------------------------------------------------------------
(* Bounds of the model *)

NumSites == 5           \* sites of one run
NumKeys == 2            \* configured credentials
BATCH_API_SIZE == 2     \* Config.BATCH_API_SIZE (from the environment, default 5)
MaxDepth == 3           \* frames of _call_gemini_api the interpreter allows
MaxLatency == 1         \* longest wait for a response that is not a timeout
MaxFailures == 2        \* failures counted per credential
MaxEntries == 3         \* entries of the "sites" array of a batch response
NumDepots == 2          \* depots handed to the allocation optimizer
NumDepotSites == 2      \* sites handed to the allocation optimizer
MaxCalls == 2           \* calls of recommend_resupply on the same row
MaxCarried == 3         \* highest failure count with which run is entered again
MaxResults == 3         \* results handed to the allocation step of run

(* Program constants *)

MIN_ORDER_QUANTITY == 10
EXPIRY_THRESHOLD_DAYS == 30
LLM_EXPIRY_THRESHOLD == 60
max_llm_failures == 3
max_retries == 2
api_timeout == 3        \* 30 s

MAX_CONCURRENT_REQUESTS == 3

SiteIds == 1..NumSites

\* Python's None, where a status code or a site id is expected
None == 0

Min(a, b) == IF a < b THEN a ELSE b
Max(a, b) == IF a > b THEN a ELSE b

----------------------------------------------------------------------------
(* Site features.  compute_site_features fills every missing value, so the   *)
(* table holds integers; urgency_score = demand / (inventory + 1).           *)

\* A fraction num / den (den > 0), for values the program holds as floats.
Fraction(num, den) == [num |-> num, den |-> den]

GreaterEq(a, b) == a.num * b.den >= b.num * a.den

\* A row of the feature table (compute_site_features, lines 112-120).
Features(demand, inventory, expiry) ==
    [projected_30d_demand |-> demand, current_inventory |-> inventory,
     days_to_expiry |-> expiry, urgency_score |-> Fraction(demand, inventory + 1)]

Profiles == <<
    Features(100, 50, 90),
    Features(50, 100, 90),
    Features(50, 60, 25),
    Features(50, 45, 45) >>

\* The feature table a run is started on: the profiles dealt over the site
\* ids in turn.
FeatureTable == [s \in SiteIds |-> Profiles[((s - 1) % Len(Profiles)) + 1]]

----------------------------------------------------------------------------
(* app/rules_engine.py *)

\* int(projected_demand * (Config.SAFETY_STOCK_MULTIPLIER - 1)): in IEEE
\* doubles 1.2 - 1 is 0.19999999999999996, so the product of a multiple of 5
\* falls just below the integer d/5 and int() truncates it to d/5 - 1.
safety_stock(d) ==
    IF d > 0 /\ d % 5 = 0 THEN (d \div 5) - 1 ELSE d \div 5

recommended_quantity(f) ==
    Max(MIN_ORDER_QUANTITY,
        f.projected_30d_demand + safety_stock(f.projected_30d_demand)
            - f.current_inventory)

\* The reason text: which of the three f-strings it is and the values
\* formatted into it, in order.
Reason(template, values) == [template |-> template, values |-> values]

\* Variant: the result depends on whether the function was called before.
recommend_resupply_Stateful(f) ==
    IF fn_result.returned
    THEN [action |-> "resupply", quantity |-> recommended_quantity(f) + 1,
          reason |-> Reason("expiring", <<f.days_to_expiry, f.projected_30d_demand,
                                          f.current_inventory>>)]
    ELSE [action |-> "resupply", quantity |-> recommended_quantity(f),
          reason |-> Reason("expiring", <<f.days_to_expiry, f.projected_30d_demand,
                                          f.current_inventory>>)]

\* recommend_resupply, lines 26-68
recommend_resupply(f) ==
    IF f.days_to_expiry < EXPIRY_THRESHOLD_DAYS
    THEN [action |-> "resupply", quantity |-> recommended_quantity(f),
          reason |-> Reason("expiring", <<f.days_to_expiry, f.projected_30d_demand,
                                          f.current_inventory>>)]
    ELSE IF f.projected_30d_demand
              > f.current_inventory + safety_stock(f.projected_30d_demand)
    THEN [action |-> "resupply", quantity |-> recommended_quantity(f),
          reason |-> Reason("exceeds", <<f.projected_30d_demand, f.current_inventory,
                                         recommended_quantity(f)>>)]
    ELSE [action |-> "no_resupply", quantity |-> 0,
          reason |-> Reason("sufficient", <<f.current_inventory,
                                            f.projected_30d_demand>>)]

----------------------------------------------------------------------------
(* Results of a logical call of the reasoning client, as the orchestrator   *)
(* sees them: the parsed result, or an exception.                            *)

\* structured_result with action, quantity and confidence as the remote
\* endpoint sent them (sr = "full"), with a key missing (sr = "partial"),
\* or absent from the payload (sr = "absent").
PGood    == [sr |-> "full", action |-> "resupply", quantity |-> 20, confidence |-> 9]
PKeep    == [sr |-> "full", action |-> "no_resupply", quantity |-> 5, confidence |-> 7]
PSmall   == [sr |-> "full", action |-> "resupply", quantity |-> 3, confidence |-> 9]
PWild    == [sr |-> "full", action |-> "hold", quantity |-> -5, confidence |-> 17]
PPartial == [sr |-> "partial", action |-> "none", quantity |-> 0, confidence |-> 0]
PAbsent  == [sr |-> "absent", action |-> "none", quantity |-> 0, confidence |-> 0]
\* in a batch response: no entry echoes the site id
PMissing == [sr |-> "missing", action |-> "none", quantity |-> 0, confidence |-> 0]

SinglePayloads == {PGood, PKeep, PPartial}

\* The payloads explored under the parallel dispatch, which never looks at
\* the values: one well-formed, one incomplete.
ParallelPayloads == {PGood, PPartial}

\* GeminiClient._parse_response (lines 651-662): a payload without
\* structured_result gets the default; anything else is returned as sent.
_parse_response(p) ==
    IF p.sr = "absent"
    THEN [sr |-> "full", action |-> "no_resupply", quantity |-> 0, confidence |-> 5]
    ELSE p

\* GeminiClient._parse_batch_response (lines 446-486) for one site id:
\* `entry` is the payload of the last response entry echoing this site id,
\* or PMissing when no entry does.
_parse_batch_entry(entry) ==
    IF entry.sr = "missing"
    THEN [sr |-> "full", action |-> "no_resupply", quantity |-> 0, confidence |-> 3]
    ELSE _parse_response(entry)

\* An entry of the "sites" array of a batch response: the site id it echoes
\* (None when it has none) and its payload.
Entry(site_id, payload) == [site_id |-> site_id, payload |-> payload]

\* Variant: the entries are taken in the order of the response.
_parse_batch_response_Positional(entries, site_ids) ==
    [i \in 1..Len(site_ids) |->
        _parse_batch_entry(IF i <= Len(entries) THEN entries[i].payload ELSE PMissing)]

\* GeminiClient._parse_batch_response (lines 446-486): results_map keeps,
\* for each echoed site id, the entry that comes last; the list returned
\* follows site_ids.
_parse_batch_response(entries, site_ids) ==
    [i \in 1..Len(site_ids) |->
        LET js == { j \in 1..Len(entries) :
                      entries[j].site_id # None /\ entries[j].site_id = site_ids[i] }
        IN  _parse_batch_entry(IF js = {} THEN PMissing
                               ELSE entries[CHOOSE j \in js : \A k \in js : k <= j].payload)]

----------------------------------------------------------------------------
(* app/orchestrator.py *)

Decision(s, r, used) ==
    [site_id |-> s, action |-> r.action, quantity |-> r.quantity,
     confidence |-> r.confidence, llm_used |-> used]

\* Orchestrator._process_site_with_rules
_process_site_with_rules(s) ==
    [site_id |-> s,
     action |-> recommend_resupply(site_features[s]).action,
     quantity |-> recommend_resupply(site_features[s]).quantity,
     confidence |-> 5, llm_used |-> FALSE]

\* Config.LLM_PRIORITY_THRESHOLD, 1.5
LLM_PRIORITY_THRESHOLD == Fraction(3, 2)

\* Variant: the urgency has to exceed the threshold.
HighUrgency_Strict(f) == ~GreaterEq(LLM_PRIORITY_THRESHOLD, f.urgency_score)

\* urgency_score >= Config.LLM_PRIORITY_THRESHOLD
HighUrgency(f) == GreaterEq(f.urgency_score, LLM_PRIORITY_THRESHOLD)

\* Variant: the expiry window does not send a site to the reasoning lane.
_should_use_llm_NoExpiry(f, count) ==
    IF ~cfg.use_selective_llm \/ ~cfg.llm_available
    THEN cfg.llm_available /\ count < max_llm_failures
    ELSE \/ HighUrgency(f)
         \/ f.current_inventory < f.projected_30d_demand

\* Orchestrator._should_use_llm
_should_use_llm(f, count) ==
    IF ~cfg.use_selective_llm \/ ~cfg.llm_available
    THEN cfg.llm_available /\ count < max_llm_failures
    ELSE \/ HighUrgency(f)
         \/ f.days_to_expiry <= LLM_EXPIRY_THRESHOLD
         \/ f.current_inventory < f.projected_30d_demand

\* The sort key of run, line 277: (-urgency_score, days_to_expiry).
\* TRUE when site a sorts strictly before site b.
KeyLess(a, b) ==
    LET fa == site_features[a]
        fb == site_features[b]
        ua == fa.urgency_score.num * fb.urgency_score.den
        ub == fb.urgency_score.num * fa.urgency_score.den
    IN  \/ ua > ub
        \/ ua = ub /\ fa.days_to_expiry < fb.days_to_expiry

\* list.sort is stable: ties keep the order of the feature table.
RECURSIVE InsertSorted(_, _)
InsertSorted(seq, x) ==
    IF seq = <<>> THEN <<x>>
    ELSE IF KeyLess(x, Head(seq)) THEN <<x>> \o seq
    ELSE <<Head(seq)>> \o InsertSorted(Tail(seq), x)

RECURSIVE SortSites(_)
SortSites(n) == IF n = 0 THEN <<>> ELSE InsertSorted(SortSites(n - 1), n)

\* The dispatch of the reasoning lane chosen at run, lines 297 and 322.
Mode ==
    IF cfg.use_batch_api /\ BATCH_API_SIZE > 1 THEN "batch"
    ELSE IF cfg.use_parallel THEN "parallel"
    ELSE "sequential"

Range(seq) == { seq[i] : i \in 1..Len(seq) }

\* Variant: a slice that stops one element early.
SubSeqFrom_Short(seq, lo, hi) == [i \in 1..(Min(hi, Len(seq)) - lo) |-> seq[lo + i - 1]]

\* seq[lo-1:hi] of Python, with lo counted from 1
SubSeqFrom(seq, lo, hi) == [i \in 1..(Min(hi, Len(seq)) - lo + 1) |-> seq[lo + i - 1]]

NoDecision ==
    [site_id |-> 0, action |-> "none", quantity |-> 0, confidence |-> 0, llm_used |-> FALSE]

\* A future of the parallel dispatch: st is its position, tmp the value
\* loaded by `self.llm_failure_count += 1`.
Task(st, tmp) == [st |-> st, tmp |-> tmp]

IdleTasks == [s \in SiteIds |-> Task("none", 0)]

\* History of the reasoning call made for a site: not made, raised, or
\* returned `payload` (per site, for a batch call).
NotCalled == [st |-> "none", payload |-> PMissing]
Raised == [st |-> "raised", payload |-> PMissing]
Returned(payload) == [st |-> "returned", payload |-> payload]

RECURSIVE SeqToBag(_)
SeqToBag(seq) ==
    IF seq = <<>> THEN EmptyBag ELSE SetToBag({Head(seq)}) (+) SeqToBag(Tail(seq))

\* Variant: the client is constructed without credentials.
GeminiClientRaises_Never(n) == FALSE

\* GeminiClient.__init__, lines 14-16, with n credentials configured:
\* ValueError when Config.get_gemini_api_keys() is empty.
GeminiClientRaises(n) == n = 0

\* Orchestrator.__init__ (with n credentials configured, lines 27-33 set
\* llm_available) followed by the loading of the feature table.
OrchInit ==
    /\ site_features = FeatureTable
    /\ \E n \in {0, NumKeys}, batch \in BOOLEAN, par \in BOOLEAN, sel \in BOOLEAN :
         cfg = [configured_keys |-> n,
                llm_available |-> ~GeminiClientRaises(n),
                use_batch_api |-> batch /\ ~GeminiClientRaises(n),
                use_parallel |-> par, use_selective_llm |-> sel]
    /\ pc = "idle"
    /\ sites_list = <<>>
    /\ llm_sites = <<>>
    /\ rules_sites = <<>>
    /\ results = EmptyBag
    /\ llm_failure_count = 0
    /\ batch_idx = 0
    /\ sleeping = FALSE
    /\ tasks = IdleTasks
    /\ rate_limiter = MAX_CONCURRENT_REQUESTS
    /\ call_log = [s \in SiteIds |-> NotCalled]

\* run, lines 265-281: results = [], the priority sort, empty lanes.
RunStart ==
    /\ pc = "idle"
    /\ pc' = "classify"
    /\ sites_list' = SortSites(NumSites)
    /\ results' = EmptyBag
    /\ llm_sites' = <<>>
    /\ rules_sites' = <<>>
    /\ UNCHANGED <<site_features, cfg, llm_failure_count, batch_idx, sleeping, tasks,
                   rate_limiter, call_log>>
    /\ UNCHANGED <<client_vars, fn_vars>>

\* Where run goes once a phase has nothing (more) to do.
AfterClassify(llm, rules) ==
    IF llm # <<>> THEN "llm" ELSE IF rules # <<>> THEN "rules" ELSE "done"

AfterLLM == IF rules_sites # <<>> THEN "rules" ELSE "done"

\* Futures submitted by the executor of run, lines 330-334.
Submitted(llm) ==
    [s \in SiteIds |->
        IF s \in Range(llm) THEN Task("queued", 0) ELSE IdleTasks[s]]

\* run, lines 283-287: one iteration of the classification loop.
Classify ==
    /\ pc = "classify"
    /\ LET i == Len(llm_sites) + Len(rules_sites) + 1
           s == sites_list[i]
           use == _should_use_llm(site_features[s], llm_failure_count)
           llm == IF use THEN Append(llm_sites, s) ELSE llm_sites
           rules == IF use THEN rules_sites ELSE Append(rules_sites, s)
       IN  /\ llm_sites' = llm
           /\ rules_sites' = rules
           /\ pc' = IF i = Len(sites_list) THEN AfterClassify(llm, rules) ELSE "classify"
           /\ tasks' = IF i = Len(sites_list) /\ llm # <<>> /\ Mode = "parallel"
                       THEN Submitted(llm) ELSE tasks
    /\ batch_idx' = 0
    /\ UNCHANGED <<site_features, cfg, sites_list, results, llm_failure_count, sleeping,
                   rate_limiter, call_log>>
    /\ UNCHANGED <<client_vars, fn_vars>>

\* What the remote endpoint may answer for one site of a batch.
BatchPayloads == {PGood, PKeep, PPartial, PMissing}

\* call_log after a call for the sites of `batch` that raised, or returned
\* payload[i] for batch[i].
Logged(batch, raised, payload) ==
    [s \in SiteIds |->
        IF \E i \in 1..Len(batch) : batch[i] = s
        THEN IF raised THEN Raised
             ELSE Returned(payload[CHOOSE i \in 1..Len(batch) : batch[i] = s])
        ELSE call_log[s]]

RulesFor(ss) == [i \in 1..Len(ss) |-> _process_site_with_rules(ss[i])]

\* result["structured_result"]["action"] and its siblings (lines 146-148 and
\* 188-190) raise KeyError on a structured_result that lacks one of them.
Readable(r) == r.sr = "full"

\* Variant: a batch whose call raised yields no Decision at all.
_process_sites_batch_llm_Dropping(batch, raised, resp) ==
    IF raised THEN <<<< >>, llm_failure_count + 1>>
    ELSE IF \E i \in 1..Len(batch) : ~Readable(resp[i])
    THEN <<RulesFor(batch), llm_failure_count + 1>>
    ELSE <<[i \in 1..Len(batch) |-> Decision(batch[i], resp[i], TRUE)], 0>>

\* Variant: after a failure the following batch is degraded as well.
_process_sites_batch_llm_Sticky(batch, raised, resp) ==
    IF raised \/ llm_failure_count > 0 \/ \E i \in 1..Len(batch) : ~Readable(resp[i])
    THEN <<RulesFor(batch), llm_failure_count + 1>>
    ELSE <<[i \in 1..Len(batch) |-> Decision(batch[i], resp[i], TRUE)], 0>>

\* Orchestrator._process_sites_batch_llm: `raised` tells whether
\* get_batch_recommendations raised, `resp` is what it returned otherwise.
\* The value is the pair <<processed sites, llm_failure_count afterwards>>.
_process_sites_batch_llm(batch, raised, resp) ==
    IF raised \/ \E i \in 1..Len(batch) : ~Readable(resp[i])
    THEN <<RulesFor(batch), llm_failure_count + 1>>
    ELSE <<[i \in 1..Len(batch) |-> Decision(batch[i], resp[i], TRUE)], 0>>

\* run, lines 299-319: one iteration of the batch loop, up to the sleep.
ProcessBatch ==
    /\ pc = "llm" /\ Mode = "batch" /\ ~sleeping
    /\ LET batch == SubSeqFrom(llm_sites, batch_idx + 1, batch_idx + BATCH_API_SIZE)
       IN \E raised \in BOOLEAN :
          \E payload \in [1..Len(batch) -> BatchPayloads] :
            LET resp == [i \in 1..Len(batch) |-> _parse_batch_entry(payload[i])]
                out == _process_sites_batch_llm(batch, raised, resp)
            IN  /\ raised => \A i \in 1..Len(batch) : payload[i] = PMissing
                /\ results' = results (+) SeqToBag(out[1])
                /\ llm_failure_count' = out[2]
                /\ call_log' = Logged(batch, raised, payload)
    /\ IF batch_idx + BATCH_API_SIZE < Len(llm_sites)
       THEN sleeping' = TRUE /\ pc' = pc /\ batch_idx' = batch_idx + BATCH_API_SIZE
       ELSE sleeping' = FALSE /\ pc' = AfterLLM /\ batch_idx' = 0
    /\ UNCHANGED <<site_features, cfg, sites_list, llm_sites, rules_sites, tasks,
                   rate_limiter>>
    /\ UNCHANGED <<client_vars, fn_vars>>

\* run, line 319: time.sleep(self.chunk_delay) returns.
BatchDelay ==
    /\ pc = "llm" /\ Mode = "batch" /\ sleeping
    /\ sleeping' = FALSE
    /\ UNCHANGED <<site_features, cfg, pc, sites_list, llm_sites, rules_sites, results,
                   llm_failure_count, batch_idx, tasks, rate_limiter, call_log>>
    /\ UNCHANGED <<client_vars, fn_vars>>

\* Variant: after a failure the following site is degraded as well.
_process_site_individual_llm_Sticky(s, raised, r) ==
    IF raised \/ llm_failure_count > 0
    THEN <<_process_site_with_rules(s), llm_failure_count + 1>>
    ELSE IF ~Readable(r) THEN <<_process_site_with_rules(s), 0 + 1>>
    ELSE <<Decision(s, r, TRUE), 0>>

\* Orchestrator._process_site_individual_llm run to completion by one thread:
\* <<the site's Decision, llm_failure_count afterwards>>.  (Its guard
\* `not self.gemini_client` cannot hold: without a client the reasoning lane
\* is empty.)
_process_site_individual_llm(s, raised, r) ==
    IF raised THEN <<_process_site_with_rules(s), llm_failure_count + 1>>
    ELSE IF ~Readable(r) THEN <<_process_site_with_rules(s), 0 + 1>>
    ELSE <<Decision(s, r, TRUE), 0>>

\* run, lines 348-351: one iteration of the sequential loop.
ProcessSequential ==
    /\ pc = "llm" /\ Mode = "sequential"
    /\ LET s == llm_sites[batch_idx + 1]
       IN \E raised \in BOOLEAN : \E payload \in SinglePayloads :
            LET out == _process_site_individual_llm(s, raised, _parse_response(payload))
            IN  /\ raised => payload = PGood
                /\ results' = results (+) SetToBag({out[1]})
                /\ llm_failure_count' = out[2]
                /\ call_log' = Logged(<<s>>, raised, <<payload>>)
    /\ IF batch_idx + 1 < Len(llm_sites)
       THEN pc' = pc /\ batch_idx' = batch_idx + 1
       ELSE pc' = AfterLLM /\ batch_idx' = 0
    /\ UNCHANGED <<site_features, cfg, sites_list, llm_sites, rules_sites, sleeping,
                   tasks, rate_limiter>>
    /\ UNCHANGED <<client_vars, fn_vars>>

\* Threads of ThreadPoolExecutor(max_workers=self.max_concurrent) that are
\* running a task.
Busy == { s \in SiteIds : tasks[s].st \in {"running", "excepting", "loaded"} }

\* The executor's work queue is first in, first out.
FirstQueued(s) ==
    /\ tasks[s].st = "queued"
    /\ \E i \in 1..Len(llm_sites) :
          /\ llm_sites[i] = s
          /\ \A j \in 1..(i - 1) : tasks[llm_sites[j]].st # "queued"

\* A pool thread is idle while a task is queued.  Such a thread takes the
\* task before the running threads are followed further: taking a task reads
\* and writes nothing the others use, so no outcome is lost.
ThreadIdle ==
    /\ \E s \in SiteIds : tasks[s].st = "queued"
    /\ Cardinality(Busy) < MAX_CONCURRENT_REQUESTS

\* Variant: the reasoning phase is left as soon as one future has finished.
Collected_Early(s, d) ==
    /\ results' = results (+) SetToBag({d})
    /\ pc' = AfterLLM

\* run, lines 336-339: as_completed hands the finished future of site s to
\* the main thread, which appends its result.  Nothing a worker reads is
\* touched, so the append is taken together with the step that finishes the
\* future.
Collected(s, d) ==
    /\ results' = results (+) SetToBag({d})
    /\ pc' = IF \A t \in Range(llm_sites) \ {s} : tasks[t].st = "done"
             THEN AfterLLM ELSE pc

\* Variant: every queued task is started at once, without pool or semaphore.
TaskStart_Unbounded(s) ==
    /\ pc = "llm" /\ Mode = "parallel"
    /\ tasks[s].st = "queued"
    /\ rate_limiter' = rate_limiter - 1
    /\ tasks' = [tasks EXCEPT ![s] = Task("running", 0)]
    /\ UNCHANGED <<site_features, cfg, pc, sites_list, llm_sites, rules_sites, results,
                   llm_failure_count, batch_idx, sleeping, call_log>>
    /\ UNCHANGED <<client_vars, fn_vars>>

\* process_with_rate_limit, lines 324-328: a pool thread takes the task and
\* acquires the semaphore; the reasoning call is now in flight.
TaskStart(s) ==
    /\ pc = "llm" /\ Mode = "parallel"
    /\ rate_limiter > 0
    /\ FirstQueued(s)
    /\ Cardinality(Busy) < MAX_CONCURRENT_REQUESTS
    /\ rate_limiter' = rate_limiter - 1
    /\ tasks' = [tasks EXCEPT ![s] = Task("running", 0)]
    /\ UNCHANGED <<site_features, cfg, pc, sites_list, llm_sites, rules_sites, results,
                   llm_failure_count, batch_idx, sleeping, call_log>>
    /\ UNCHANGED <<client_vars, fn_vars>>

\* _process_site_individual_llm, lines 176-195, in a pool thread: the call
\* returns, the counter is reset, the Decision is built (or KeyError).
TaskReturn(s) ==
    /\ pc = "llm" /\ Mode = "parallel"
    /\ tasks[s].st = "running"
    /\ ~ThreadIdle
    /\ \E payload \in ParallelPayloads :
         LET r == _parse_response(payload)
         IN  /\ call_log' = Logged(<<s>>, FALSE, <<payload>>)
             /\ llm_failure_count' = 0
             /\ IF Readable(r)
                THEN /\ tasks' = [tasks EXCEPT ![s] = Task("done", 0)]
                     /\ rate_limiter' = rate_limiter + 1
                     /\ Collected(s, Decision(s, r, TRUE))
                ELSE /\ tasks' = [tasks EXCEPT ![s] = Task("excepting", 0)]
                     /\ rate_limiter' = rate_limiter
                     /\ UNCHANGED <<results, pc>>
    /\ UNCHANGED <<site_features, cfg, sites_list, llm_sites, rules_sites,
                   batch_idx, sleeping>>
    /\ UNCHANGED <<client_vars, fn_vars>>

\* lines 196-197: the call raised; `self.llm_failure_count += 1` loads the
\* counter.
TaskRaise(s) ==
    /\ pc = "llm" /\ Mode = "parallel"
    /\ tasks[s].st = "running"
    /\ ~ThreadIdle
    /\ tasks' = [tasks EXCEPT ![s] = Task("loaded", llm_failure_count)]
    /\ call_log' = Logged(<<s>>, TRUE, <<PMissing>>)
    /\ UNCHANGED <<site_features, cfg, pc, sites_list, llm_sites, rules_sites, results,
                   llm_failure_count, batch_idx, sleeping, rate_limiter>>
    /\ UNCHANGED <<client_vars, fn_vars>>

\* line 197 after a KeyError: the load of `self.llm_failure_count += 1`.
TaskLoad(s) ==
    /\ pc = "llm" /\ Mode = "parallel"
    /\ tasks[s].st = "excepting"
    /\ ~ThreadIdle
    /\ tasks' = [tasks EXCEPT ![s] = Task("loaded", llm_failure_count)]
    /\ UNCHANGED <<site_features, cfg, pc, sites_list, llm_sites, rules_sites, results,
                   llm_failure_count, batch_idx, sleeping, rate_limiter, call_log>>
    /\ UNCHANGED <<client_vars, fn_vars>>

\* lines 197-199: the store of `+= 1`, the rule-engine Decision, the release
\* of the semaphore.
TaskStore(s) ==
    /\ pc = "llm" /\ Mode = "parallel"
    /\ tasks[s].st = "loaded"
    /\ ~ThreadIdle
    /\ llm_failure_count' = tasks[s].tmp + 1
    /\ tasks' = [tasks EXCEPT ![s] = Task("done", 0)]
    /\ rate_limiter' = rate_limiter + 1
    /\ Collected(s, _process_site_with_rules(s))
    /\ UNCHANGED <<site_features, cfg, sites_list, llm_sites, rules_sites,
                   batch_idx, sleeping, call_log>>
    /\ UNCHANGED <<client_vars, fn_vars>>

\* run, lines 379-382: one iteration of the sequential rule loop.
RulesSequential ==
    /\ pc = "rules" /\ ~cfg.use_parallel
    /\ results' = results (+) SetToBag({_process_site_with_rules(rules_sites[batch_idx + 1])})
    /\ IF batch_idx + 1 < Len(rules_sites)
       THEN pc' = pc /\ batch_idx' = batch_idx + 1
       ELSE pc' = "done" /\ batch_idx' = 0
    /\ UNCHANGED <<site_features, cfg, sites_list, llm_sites, rules_sites,
                   llm_failure_count, sleeping, tasks, rate_limiter, call_log>>
    /\ UNCHANGED <<client_vars, fn_vars>>

\* run, lines 357-371: the rule lane fanned out; as_completed hands the
\* results over in completion order.
RulesParallel(s) ==
    /\ pc = "rules" /\ cfg.use_parallel
    /\ s \in Range(rules_sites)
    /\ \A d \in BagToSet(results) : d.site_id # s
    /\ results' = results (+) SetToBag({_process_site_with_rules(s)})
    /\ IF batch_idx + 1 < Len(rules_sites)
       THEN pc' = pc /\ batch_idx' = batch_idx + 1
       ELSE pc' = "done" /\ batch_idx' = 0
    /\ UNCHANGED <<site_features, cfg, sites_list, llm_sites, rules_sites,
                   llm_failure_count, sleeping, tasks, rate_limiter, call_log>>
    /\ UNCHANGED <<client_vars, fn_vars>>

----------------------------------------------------------------------------
(* app/depot_optimizer.py.  A dict is a function; its keys are numbered in   *)
(* insertion order.  Scores are doubles, held in tenths with their rounding.   *)

\* dict.get(key, default)
Get(dict, key, default) == IF key \in DOMAIN dict THEN dict[key] ELSE default

\* Variant: the current inventory of the site is not deducted.
net_demands_Gross(site_demands, site_inventory) ==
    [s \in DOMAIN site_demands |-> Max(0, site_demands[s])]

\* optimize_depot_allocation, lines 44-47
net_demands(site_demands, site_inventory) ==
    [s \in DOMAIN site_demands |-> Max(0, site_demands[s] - Get(site_inventory, s, 0))]

\* Variant: a site is put in front of the sites with the same net demand.
RECURSIVE InsertByNet_Unstable(_, _, _)
InsertByNet_Unstable(seq, s, nd) ==
    IF seq = << >> THEN <<s>>
    ELSE IF nd[s] >= nd[Head(seq)] THEN <<s>> \o seq
    ELSE <<Head(seq)>> \o InsertByNet_Unstable(Tail(seq), s, nd)

\* line 51: sorted(net_demands.items(), key=lambda x: x[1], reverse=True);
\* sorted is stable, also with reverse=True.
RECURSIVE InsertByNet(_, _, _)
InsertByNet(seq, s, nd) ==
    IF seq = << >> THEN <<s>>
    ELSE IF nd[s] > nd[Head(seq)] THEN <<s>> \o seq
    ELSE <<Head(seq)>> \o InsertByNet(Tail(seq), s, nd)

RECURSIVE SortedFrom(_, _)
SortedFrom(n, nd) == IF n = 0 THEN << >> ELSE InsertByNet(SortedFrom(n - 1, nd), n, nd)

sorted_sites(nd) == SortedFrom(Cardinality(DOMAIN nd), nd)

\* The pairs <<lead time, cost>> with a lead time of 0..5 and a cost of 0..30
\* for which lead_time + cost * 0.1, computed in doubles, is not the double
\* nearest to the exact sum: it is the next double above it (the product
\* cost * 0.1 is rounded up, as in 14 * 0.1 = 1.4000000000000001).
RoundedUp ==
    { <<0, 3>>, <<0, 6>>, <<0, 7>>, <<0, 12>>, <<0, 14>>, <<0, 17>>, <<0, 19>>,
      <<0, 23>>, <<0, 24>>, <<0, 28>>, <<0, 29>>, <<1, 7>>, <<1, 14>>, <<1, 19>>,
      <<1, 23>>, <<1, 24>>, <<1, 28>>, <<1, 29>>, <<2, 14>>, <<2, 19>>, <<2, 23>>,
      <<2, 28>>, <<3, 23>>, <<3, 28>>, <<4, 23>>, <<4, 28>>, <<5, 23>>, <<5, 28>> }

\* _find_best_depot, lines 117-122: the score of depot d for the site, a
\* double: its exact value in tenths, and the units in the last place by
\* which the computed double lies above the double nearest to that value.
Score(d, site_id, lead_times, shipping_costs) ==
    LET lead_time == lead_times[d][site_id]
        cost == IF d \in DOMAIN shipping_costs /\ site_id \in DOMAIN shipping_costs[d]
                THEN shipping_costs[d][site_id] ELSE 0
    IN  [tenths |-> 10 * lead_time + cost,
         ulps |-> IF <<lead_time, cost>> \in RoundedUp THEN 1 ELSE 0]

\* a < b for two scores
Lower(a, b) == a.tenths < b.tenths \/ (a.tenths = b.tenths /\ a.ulps < b.ulps)

NoDepot == [found |-> FALSE, depot_id |-> 0, quantity |-> 0]

\* Variant: of the depots with the lowest score the last one is taken.
_find_best_depot_Last(site_id, demand, depot_inventory, lead_times, shipping_costs) ==
    LET candidates == { d \in DOMAIN depot_inventory :
                          /\ depot_inventory[d] > 0
                          /\ d \in DOMAIN lead_times
                          /\ site_id \in DOMAIN lead_times[d] }
        sc(d) == Score(d, site_id, lead_times, shipping_costs)
    IN  IF candidates = {} THEN NoDepot
        ELSE LET best == CHOOSE d \in candidates :
                            \A o \in candidates :
                                Lower(sc(d), sc(o)) \/ (sc(d) = sc(o) /\ d >= o)
             IN  [found |-> TRUE, depot_id |-> best,
                  quantity |-> Min(demand, depot_inventory[best])]

\* Variant: the whole demand is taken from the best depot.
_find_best_depot_Whole(site_id, demand, depot_inventory, lead_times, shipping_costs) ==
    LET candidates == { d \in DOMAIN depot_inventory :
                          /\ depot_inventory[d] > 0
                          /\ d \in DOMAIN lead_times
                          /\ site_id \in DOMAIN lead_times[d] }
        sc(d) == Score(d, site_id, lead_times, shipping_costs)
    IN  IF candidates = {} THEN NoDepot
        ELSE LET best == CHOOSE d \in candidates :
                            \A o \in candidates :
                                Lower(sc(d), sc(o)) \/ (sc(d) = sc(o) /\ d <= o)
             IN  [found |-> TRUE, depot_id |-> best, quantity |-> demand]

\* DepotOptimizer._find_best_depot: candidates.sort is stable, so of the
\* depots with the lowest score the first in depot_inventory is taken.
_find_best_depot(site_id, demand, depot_inventory, lead_times, shipping_costs) ==
    LET candidates == { d \in DOMAIN depot_inventory :
                          /\ depot_inventory[d] > 0
                          /\ d \in DOMAIN lead_times
                          /\ site_id \in DOMAIN lead_times[d] }
        sc(d) == Score(d, site_id, lead_times, shipping_costs)
    IN  IF candidates = {} THEN NoDepot
        ELSE LET best == CHOOSE d \in candidates :
                            \A o \in candidates :
                                Lower(sc(d), sc(o)) \/ (sc(d) = sc(o) /\ d <= o)
             IN  [found |-> TRUE, depot_id |-> best,
                  quantity |-> Min(demand, depot_inventory[best])]

\* lines 35-41, with remaining_depot_inv of line 53
EmptyPlan(depot_inventory) ==
    [allocations |-> << >>, total_allocated |-> 0, unmet_demand |-> << >>,
     excess_inventory |-> << >>, optimization_score |-> Fraction(0, 1),
     remaining_depot_inv |-> depot_inventory]

\* Variant: a site served in part is not entered in unmet_demand.
RECURSIVE AllocateFrom_NoPartial(_, _, _, _, _, _)
AllocateFrom_NoPartial(i, sorted, nd, lead_times, shipping_costs, plan) ==
    IF i > Len(sorted) THEN plan
    ELSE LET site_id == sorted[i]
             net_demand == nd[site_id]
             best == _find_best_depot(site_id, net_demand, plan.remaining_depot_inv,
                                      lead_times, shipping_costs)
             next ==
                IF net_demand <= 0 THEN plan
                ELSE IF best.found
                THEN [plan EXCEPT
                        !.allocations = Append(@,
                            [depot_id |-> best.depot_id, site_id |-> site_id,
                             quantity |-> best.quantity,
                             lead_time_days |->
                                Get(Get(lead_times, best.depot_id, << >>), site_id, 7)]),
                        !.total_allocated = @ + best.quantity,
                        !.remaining_depot_inv[best.depot_id] = @ - best.quantity]
                ELSE [plan EXCEPT !.unmet_demand = (site_id :> net_demand) @@ @]
         IN  AllocateFrom_NoPartial(i + 1, sorted, nd, lead_times, shipping_costs, next)

\* Variant: what the best depot cannot cover is asked of the next best.
RECURSIVE AllocateFrom_Split(_, _, _, _, _, _)
AllocateFrom_Split(i, sorted, nd, lead_times, shipping_costs, plan) ==
    IF i > Len(sorted) THEN plan
    ELSE LET site_id == sorted[i]
             net_demand == nd[site_id]
             best == _find_best_depot(site_id, net_demand, plan.remaining_depot_inv,
                                      lead_times, shipping_costs)
             served ==
                [plan EXCEPT
                    !.allocations = Append(@,
                        [depot_id |-> best.depot_id, site_id |-> site_id,
                         quantity |-> best.quantity,
                         lead_time_days |->
                            Get(Get(lead_times, best.depot_id, << >>), site_id, 7)]),
                    !.total_allocated = @ + best.quantity,
                    !.remaining_depot_inv[best.depot_id] = @ - best.quantity]
         IN  IF net_demand <= 0
             THEN AllocateFrom_Split(i + 1, sorted, nd, lead_times, shipping_costs, plan)
             ELSE IF ~best.found
             THEN AllocateFrom_Split(i + 1, sorted, nd, lead_times, shipping_costs,
                     [plan EXCEPT !.unmet_demand = (site_id :> net_demand) @@ @])
             ELSE IF best.quantity < net_demand
             THEN AllocateFrom_Split(i, sorted,
                     [nd EXCEPT ![site_id] = net_demand - best.quantity],
                     lead_times, shipping_costs, served)
             ELSE AllocateFrom_Split(i + 1, sorted, nd, lead_times, shipping_costs, served)

\* lines 55-79: the loop over sorted_sites from position i on.
RECURSIVE AllocateFrom(_, _, _, _, _, _)
AllocateFrom(i, sorted, nd, lead_times, shipping_costs, plan) ==
    IF i > Len(sorted) THEN plan
    ELSE LET site_id == sorted[i]
             net_demand == nd[site_id]
             best == _find_best_depot(site_id, net_demand, plan.remaining_depot_inv,
                                      lead_times, shipping_costs)
             next ==
                IF net_demand <= 0 THEN plan
                ELSE IF best.found
                THEN [plan EXCEPT
                        !.allocations = Append(@,
                            [depot_id |-> best.depot_id, site_id |-> site_id,
                             quantity |-> best.quantity,
                             lead_time_days |->
                                Get(Get(lead_times, best.depot_id, << >>), site_id, 7)]),
                        !.total_allocated = @ + best.quantity,
                        !.remaining_depot_inv[best.depot_id] = @ - best.quantity,
                        !.unmet_demand = IF best.quantity < net_demand
                                         THEN (site_id :> (net_demand - best.quantity)) @@ @
                                         ELSE @]
                ELSE [plan EXCEPT !.unmet_demand = (site_id :> net_demand) @@ @]
         IN  AllocateFrom(i + 1, sorted, nd, lead_times, shipping_costs, next)

RECURSIVE SumOver(_, _)
SumOver(f, S) ==
    IF S = {} THEN 0
    ELSE LET x == CHOOSE x \in S : TRUE IN f[x] + SumOver(f, S \ {x})

\* Variant: the score is the ratio itself, not a percentage.
OptimizationScore_Ratio(total_allocated, total_demand) ==
    IF total_demand > 0 THEN Fraction(total_allocated, total_demand) ELSE Fraction(0, 1)

\* lines 87-91: (total_allocated / total_demand) * 100, or the 0.0 of line 40.
\* The float is held as the fraction it approximates.
OptimizationScore(total_allocated, total_demand) ==
    IF total_demand > 0 THEN Fraction(100 * total_allocated, total_demand)
    ELSE Fraction(0, 1)

\* DepotOptimizer.optimize_depot_allocation
optimize_depot_allocation(site_demands, depot_inventory, site_inventory, lead_times, shipping_costs) ==
    LET nd == net_demands(site_demands, site_inventory)
        plan == AllocateFrom(1, sorted_sites(nd), nd, lead_times, shipping_costs,
                             EmptyPlan(depot_inventory))
        left == { d \in DOMAIN depot_inventory : plan.remaining_depot_inv[d] > 0 }
        total_demand == SumOver(nd, DOMAIN nd)
    IN  [allocations |-> plan.allocations,
         total_allocated |-> plan.total_allocated,
         unmet_demand |-> plan.unmet_demand,
         excess_inventory |-> [d \in left |-> plan.remaining_depot_inv[d]],
         optimization_score |-> OptimizationScore(plan.total_allocated, total_demand)]

\* An element of the list `results` of run as its Step 7 reads it.
RunResult(site_id, action, quantity, current_inventory) ==
    [site_id |-> site_id, action |-> action, quantity |-> quantity,
     current_inventory |-> current_inventory]

\* Variant: every result is taken as demand.
resupply_results_All(rs) == rs

\* run, line 472: the results whose action is "resupply", in the order of
\* the list.
resupply_results(rs) == SelectSeq(rs, LAMBDA r : r.action = "resupply")

\* run, lines 470-484 (Step 7), on a list `results` = rs with distinct site
\* ids: the keys of site_demands are numbered in insertion order, site_ids
\* tells which site each number stands for.  site_inventory is held for the
\* keys of site_demands, the only ones the optimizer looks up.
depot_optimization(rs) ==
    LET demand == resupply_results(rs)
        site_demands == [p \in 1..Len(demand) |-> demand[p].quantity]
        site_inventory == [p \in 1..Len(demand) |-> demand[p].current_inventory]
        depot_inventory == << SumOver(site_demands, DOMAIN site_demands) * 2 >>
        lead_times == << [p \in 1..Len(demand) |-> 7] >>
    IN  [site_ids |-> [p \in 1..Len(demand) |-> demand[p].site_id],
         plan |-> optimize_depot_allocation(site_demands, depot_inventory,
                                            site_inventory, lead_times, << >>)]

----------------------------------------------------------------------------
(* app/gemini_client.py *)

Keys == 1..NumKeys

\* self.api_keys, in configured order (Config.get_gemini_api_keys): as many
\* of the credentials as are configured.
api_keys == [i \in 1..cfg.configured_keys |-> i]

\* e.response as a condition (lines 118, 220, 588): a requests.Response is
\* true exactly when its status is below 400; an HTTPError built without a
\* response (line 586) carries None.
ResponseTruthy(response) == response # None /\ response < 400

\* getattr(e.response, 'status_code', None) if hasattr(e, 'response') and
\* e.response else None
status_code(response) == IF ResponseTruthy(response) THEN response ELSE None

\* Time passes: every cooldown has d units less to run.
Elapse(cooldown, d) == [k \in Keys |-> Max(0, cooldown[k] - d)]

\* GeminiClient._mark_key_failure: cooldown_seconds, in units of 10 s.
cooldown_seconds(sc) == IF sc = 429 THEN 6 ELSE IF sc = 503 THEN 3 ELSE 1

\* GeminiClient._mark_key_failure: key_cooldown afterwards.
_mark_key_failure(cooldown, key, sc) == [cooldown EXCEPT ![key] = cooldown_seconds(sc)]

\* available_keys of _get_next_available_key, lines 500-503.
available_keys(cooldown) == SelectSeq(api_keys, LAMBDA k : cooldown[k] = 0)

\* Variant: the round robin runs over all configured credentials.
_get_next_available_key_All(cooldown, idx) ==
    [key |-> api_keys[(idx % Len(api_keys)) + 1],
     idx |-> (idx + 1) % Len(api_keys),
     cooldown |-> IF available_keys(cooldown) = << >> THEN [k \in Keys |-> 0] ELSE cooldown,
     available |-> Range(available_keys(cooldown))]

\* GeminiClient._get_next_available_key with key_cooldown = cooldown and
\* current_key_index = idx: the key returned, the two fields afterwards,
\* and (for the record) the keys that were out of cooldown.
_get_next_available_key(cooldown, idx) ==
    LET avail == available_keys(cooldown)
        keys == IF avail = << >> THEN api_keys ELSE avail
    IN  [key |-> keys[(idx % Len(keys)) + 1],
         idx |-> (idx + 1) % Len(keys),
         cooldown |-> IF avail = << >> THEN [k \in Keys |-> 0] ELSE cooldown,
         available |-> Range(avail)]

\* History: the last run of _get_next_available_key: the key it returned,
\* the keys that were out of cooldown, key_cooldown afterwards, and the key
\* the run before it returned (0 when there was none).
NoSelection ==
    [n |-> 0, key |-> 0, available |-> {}, cooldown |-> [k \in Keys |-> 0], prev |-> 0]

\* An exception on its way up: kind "http" is requests HTTPError with its
\* response (a status, or None), "other" is any other exception; msg is the
\* set of credentials whose literal value its message contains.
NoExc == [kind |-> "none", response |-> None, msg |-> {}]
HTTPError(response) == [kind |-> "http", response |-> response, msg |-> {}]
OtherError == [kind |-> "other", response |-> None, msg |-> {}]

\* requests.exceptions.ConnectionError of requests.post (line 567): its
\* message quotes the URL of the request, `?key=<api_key>` included.
ConnectionError(key) == [kind |-> "other", response |-> None, msg |-> {key}]

\* Variant: the message is passed on as it is.
Sanitize_Not(msg) == msg

\* lines 174-177, 262-265 and 624-627: every configured credential found in
\* the message is replaced by "***API_KEY_HIDDEN***".
Sanitize(msg) == msg \ Range(api_keys)

\* What the remote endpoint does with one request: a 200 whose text is the
\* JSON asked for ("ok") or is not ("garbage"), an error status, no answer
\* within api_timeout, or a connection that fails.
Answer(kind, status) == [kind |-> kind, status |-> status]

Answers ==
    {Answer("ok", 200), Answer("garbage", 200), Answer("timeout", None),
     Answer("conn", None)} \cup { Answer("http", st) : st \in {429, 503, 404, 500} }

\* What a credential has answered so far in one logical call: nothing yet,
\* successes only ("ok"), 429 only, 429 / 503 / timeouts only ("transient"),
\* other failures only, or answers of several of these classes ("mixed").
NotAsked == "none"

Class(answer) ==
    IF answer.kind = "ok" THEN "ok"
    ELSE IF answer = Answer("http", 429) THEN "429"
    ELSE IF answer = Answer("http", 503) \/ answer.kind = "timeout" THEN "transient"
    ELSE "other"

Seen(before, answer) ==
    LET c == Class(answer)
    IN  IF before = NotAsked \/ before = c THEN c
        ELSE IF {before, c} \subseteq {"429", "transient"} THEN "transient"
        ELSE "mixed"

\* History: the last run of _mark_key_failure in a logical call: the
\* credential, the status of the response that failed (None for a timeout),
\* the status_code it was given, the cooldown it set and the failure count
\* before and after.
NoMark ==
    [n |-> 0, key |-> 0, response |-> None, sc |-> None, cooldown |-> 0,
     before |-> 0, after |-> 0]

NoCall ==
    [kind |-> "none", st |-> "idle", attempt |-> 0, low_calls |-> 0,
     failed |-> 0, seen |-> [k \in Keys |-> NotAsked], reqs |-> << >>,
     tried |-> {}, mark |-> NoMark, unparsed |-> FALSE,
     exc |-> NoExc, via |-> 0, result |-> << >>, error |-> "", leaked |-> {}]

\* self.model after __init__ (Config.GEMINI_MODEL, default) and
\* self.fallback_models.
GEMINI_MODEL == "gemini-2.0-flash"

fallback_models ==
    << "gemini-2.0-flash", "gemini-1.5-flash-latest", "gemini-1.5-pro-latest",
       "gemini-pro", "gemini-1.5-flash" >>

\* model_name.endswith("-latest") and model_name.replace("-latest", "")
EndsWithLatest(m) == m \in {"gemini-1.5-flash-latest", "gemini-1.5-pro-latest"}

StripLatest(m) ==
    IF m = "gemini-1.5-flash-latest" THEN "gemini-1.5-flash"
    ELSE IF m = "gemini-1.5-pro-latest" THEN "gemini-1.5-pro"
    ELSE m

\* The next model of the loop of lines 605-611 after position `from`:
\* its position in fallback_models, 0 when the loop is over.
NextFallback(model_name, from) ==
    LET later == { i \in (from + 1)..Len(fallback_models) : fallback_models[i] # model_name }
    IN  IF later = {} THEN 0 ELSE CHOOSE i \in later : \A j \in later : i <= j

\* A frame of _call_gemini_api: its api_key and model_name, whether
\* model_override was given, the except clause it is waiting in for a
\* recursive call ("timeout" line 580, "latest" line 600, "fallback" line
\* 609 with the loop position fb, "swap" line 619), and e.response of the
\* HTTPError it is handling.
Frame(key, model, override) ==
    [key |-> key, model |-> model, override |-> override,
     handler |-> "none", fb |-> 0, response |-> None]

\* The client's fields as one record, with the exception on its way up.
ClientState ==
    [cooldown |-> key_cooldown, failures |-> key_failures, idx |-> current_key_index,
     stack |-> stack, selection |-> selection, exc |-> NoExc, mark |-> call.mark]

Top(cs) == cs.stack[Len(cs.stack)]

WithTop(cs, handler, fb) ==
    [cs EXCEPT !.stack[Len(cs.stack)].handler = handler, !.stack[Len(cs.stack)].fb = fb]

\* self._get_next_available_key() run on the record.
Select(cs) ==
    LET r == _get_next_available_key(cs.cooldown, cs.idx)
    IN  [cs EXCEPT !.cooldown = r.cooldown, !.idx = r.idx,
                   !.selection = [n |-> 1, key |-> r.key, available |-> r.available,
                                  cooldown |-> r.cooldown, prev |-> cs.selection.key]]

\* self._mark_key_failure(api_key, status_code) run on the record.
Marked(cs, key, sc) ==
    [cs EXCEPT !.failures[key] = @ + 1,
               !.cooldown = _mark_key_failure(cs.cooldown, key, sc),
               !.mark = [n |-> 1, key |-> key, response |-> None, sc |-> sc,
                         cooldown |-> _mark_key_failure(cs.cooldown, key, sc)[key],
                         before |-> cs.failures[key], after |-> cs.failures[key] + 1]]

\* The frame on top raises exc.  Only HTTPError (and Timeout, which no frame
\* lets out) is caught by a calling frame; anything else leaves every frame.
Raise(cs, exc) ==
    [cs EXCEPT !.exc = exc,
               !.stack = IF exc.kind = "http" THEN SubSeq(@, 1, Len(@) - 1) ELSE << >>]

\* _call_gemini_api(prompt, model_override, key_override), lines 539-546,
\* entered from the frame on top (or from the retry loop): beyond the
\* interpreter's recursion limit the call raises RecursionError.
Enter(cs, model, override, key_override) ==
    IF Len(cs.stack) >= MaxDepth THEN Raise(cs, OtherError)
    ELSE LET c1 == IF key_override = None THEN Select(cs) ELSE cs
             key == IF key_override = None THEN c1.selection.key ELSE key_override
         IN  [c1 EXCEPT !.stack = Append(@, Frame(key, model, override))]

\* lines 623-637: the HTTPError raised by the frame `top`: its response is
\* e.response, its message is str(e), which quotes the URL with the frame's
\* credential, sanitized.
Reraised(top) == [HTTPError(top.response) EXCEPT !.msg = Sanitize({top.key})]

\* lines 613-637: the swap to the next credential on 429/503, else the
\* HTTPError is raised again with e.response.
SwapOrRaise(cs) ==
    LET top == Top(cs)
        c2 == Select(cs)
    IN  IF status_code(top.response) \in {429, 503} /\ Len(api_keys) > 1
        THEN IF c2.selection.key # top.key
             THEN Enter(WithTop(c2, "swap", 0), top.model, top.override, c2.selection.key)
             ELSE Raise(c2, Reraised(top))
        ELSE Raise(cs, Reraised(top))

\* lines 605-611: the fallback loop continued after position `from`.
TryFallback(cs, from) ==
    LET i == NextFallback(Top(cs).model, from)
    IN  IF i = 0 THEN SwapOrRaise(cs)
        ELSE Enter(WithTop(cs, "fallback", i), fallback_models[i], TRUE, None)

\* lines 587-637: the handler of an HTTPError with response status `status`.
OnHTTPError(cs, status) ==
    LET key == Top(cs).key
        sc == status_code(status)
        c1 == [Marked(cs, key, sc) EXCEPT !.stack[Len(cs.stack)].response = status,
                                          !.mark.response = status]
    IN  IF sc = 404 /\ ~Top(cs).override
        THEN IF EndsWithLatest(Top(cs).model)
             THEN Enter(WithTop(c1, "latest", 0), StripLatest(Top(cs).model), TRUE, None)
             ELSE TryFallback(c1, 0)
        ELSE SwapOrRaise(c1)

\* Variant: the retry is made with whatever credential the selection returns.
OnTimeout_AnyKey(cs) ==
    LET top == Top(cs)
        c1 == Marked(cs, top.key, None)
        c2 == Select(c1)
    IN  Enter(WithTop(c2, "timeout", 0), top.model, top.override, c2.selection.key)

\* lines 570-586: the handler of a Timeout.
OnTimeout(cs) ==
    LET top == Top(cs)
        c1 == Marked(cs, top.key, None)
        c2 == Select(c1)
    IN  IF Len(api_keys) > 1
        THEN IF c2.selection.key # top.key
             THEN Enter(WithTop(c2, "timeout", 0), top.model, top.override, c2.selection.key)
             ELSE Raise(c2, HTTPError(None))
        ELSE Raise(c1, HTTPError(None))

\* The except clause of the frame on top, reached by the HTTPError of the
\* recursive call it made (lines 581, 601, 610, 620).
OnChildError(cs) ==
    LET top == Top(cs)
    IN  IF top.handler = "timeout" THEN Raise(cs, HTTPError(None))
        ELSE IF top.handler = "swap" THEN Raise(cs, Reraised(top))
        ELSE IF top.handler = "latest" THEN TryFallback(cs, 0)
        ELSE TryFallback(cs, top.fb)

\* No function is called on its own.
NoFnCall == [name |-> "none"]
NotReturned == [returned |-> FALSE]
Returns(value) == [returned |-> TRUE, value |-> value]

\* GeminiClient.__init__, lines 22-24.
ClientInit ==
    /\ key_cooldown = [k \in Keys |-> 0]
    /\ key_failures = [k \in Keys |-> 0]
    /\ current_key_index = 0
    /\ stack = << >>
    /\ call = NoCall
    /\ selection = NoSelection
    /\ fn_call = NoFnCall
    /\ fn_result = NotReturned

----------------------------------------------------------------------------
(* One run of the orchestrator *)

Init == OrchInit /\ ClientInit

Next ==
    \/ RunStart
    \/ Classify
    \/ ProcessBatch
    \/ BatchDelay
    \/ ProcessSequential
    \/ \E s \in SiteIds : TaskStart(s)
    \/ \E s \in SiteIds : TaskReturn(s)
    \/ \E s \in SiteIds : TaskRaise(s)
    \/ \E s \in SiteIds : TaskLoad(s)
    \/ \E s \in SiteIds : TaskStore(s)
    \/ RulesSequential
    \/ \E s \in SiteIds : RulesParallel(s)

Spec == Init /\ [][Next]_vars

----------------------------------------------------------------------------
(* The reasoning client on its own: logical calls, request by request *)

\* The JSON of an "ok" answer: for a single call one payload, for a batch
\* call one entry (or none) per site of the batch.
OkPayloads == {PGood, PWild, PPartial, PAbsent}

OkBatchPayloads == [1..BATCH_API_SIZE -> {PGood, PWild, PMissing}]

\* The orchestrator stands still while the client is looked at.
ClientOnlyInit ==
    /\ site_features = FeatureTable
    /\ \E n \in 1..NumKeys :
         cfg = [configured_keys |-> n, llm_available |-> TRUE, use_batch_api |-> TRUE,
                use_parallel |-> TRUE, use_selective_llm |-> TRUE]
    /\ pc = "idle"
    /\ sites_list = << >>
    /\ llm_sites = << >>
    /\ rules_sites = << >>
    /\ results = EmptyBag
    /\ llm_failure_count = 0
    /\ batch_idx = 0
    /\ sleeping = FALSE
    /\ tasks = IdleTasks
    /\ rate_limiter = MAX_CONCURRENT_REQUESTS
    /\ call_log = [s \in SiteIds |-> NotCalled]
    /\ ClientInit

\* The record written back to the fields.
SetClient(cs) ==
    /\ key_cooldown' = cs.cooldown
    /\ key_failures' = cs.failures
    /\ current_key_index' = cs.idx
    /\ stack' = cs.stack
    /\ selection' = cs.selection

\* The logical call after _call_gemini_api went on to state cs: it is still
\* inside, or its exception has reached the retry loop.
Inside(c, cs) ==
    [c EXCEPT !.exc = cs.exc,
              !.mark = cs.mark,
              !.reqs = IF cs.stack = << >> THEN << >> ELSE @,
              !.st = IF cs.stack = << >> /\ cs.exc.kind # "none" THEN "caught" ELSE "calling"]

\* get_recommendation_justification / get_batch_recommendations is called.
StartCall(kind) ==
    /\ call.st \in {"idle", "ok", "raised"}
    /\ call' = [NoCall EXCEPT !.kind = kind, !.st = "attempt"]
    /\ UNCHANGED <<key_cooldown, key_failures, current_key_index, stack, selection>>
    /\ UNCHANGED <<orch_vars, fn_vars>>

\* lines 115 and 217: response = self._call_gemini_api(prompt), up to the
\* request.
Attempt ==
    /\ call.st = "attempt"
    /\ LET cs == Enter(ClientState, GEMINI_MODEL, FALSE, None)
       IN  /\ SetClient(cs)
           /\ call' = Inside([call EXCEPT !.low_calls = @ + 1, !.reqs = << >>,
                                           !.tried = {}], cs)
    /\ UNCHANGED <<orch_vars, fn_vars>>

\* lines 567-569 and the handlers: requests.post of the frame on top is
\* answered after d units; the frame returns, raises, or calls
\* _call_gemini_api again.  (Failures of a credential are followed up to
\* MaxFailures.)  A return goes through every frame (lines 580,
\* 600, 609, 619 return the value) to the retry loop, which parses it.
Request ==
    /\ call.st = "calling" /\ call.exc.kind = "none" /\ stack # << >>
    /\ \E answer \in Answers, d \in 0..MaxLatency :
         LET top == stack[Len(stack)]
             wait == IF answer.kind = "timeout" THEN api_timeout ELSE d
             cs0 == [ClientState EXCEPT !.cooldown = Elapse(@, wait)]
             c0 == [call EXCEPT !.seen[top.key] = Seen(@, answer),
                                !.reqs = Append(@, <<top.key, top.model>>),
                                !.tried = @ \cup {top.model}]
         IN  /\ answer.kind = "timeout" => d = 0
             /\ answer.kind \in {"timeout", "http"} => key_failures[top.key] < MaxFailures
             /\ CASE answer.kind = "ok" ->
                       /\ SetClient([cs0 EXCEPT !.stack = << >>])
                       /\ IF call.kind = "single"
                          THEN \E p \in OkPayloads :
                                 call' = [c0 EXCEPT !.st = "ok", !.via = top.key,
                                                    !.reqs = << >>,
                                                    !.result = <<_parse_response(p)>>]
                          ELSE \E ps \in OkBatchPayloads :
                                 call' = [c0 EXCEPT !.st = "ok", !.via = top.key,
                                     !.reqs = << >>,
                                     !.result = [i \in 1..BATCH_API_SIZE |->
                                                    _parse_batch_entry(ps[i])]]
                  [] answer.kind = "garbage" ->
                       /\ SetClient([cs0 EXCEPT !.stack = << >>])
                       /\ call' = [c0 EXCEPT !.st = "caught", !.exc = OtherError,
                                          !.reqs = << >>, !.unparsed = TRUE]
                  [] answer.kind = "conn" ->
                       /\ SetClient(Raise(cs0, ConnectionError(top.key)))
                       /\ call' = Inside(c0, Raise(cs0, ConnectionError(top.key)))
                  [] answer.kind = "timeout" ->
                       /\ SetClient(OnTimeout(cs0))
                       /\ call' = Inside(c0, OnTimeout(cs0))
                  [] answer.kind = "http" ->
                       /\ SetClient(OnHTTPError(cs0, answer.status))
                       /\ call' = Inside(c0, OnHTTPError(cs0, answer.status))
    /\ UNCHANGED <<orch_vars, fn_vars>>

\* An HTTPError raised by a recursive call reaches the except clause of the
\* frame that made the call.
Propagate ==
    /\ call.st = "calling" /\ call.exc.kind = "http" /\ stack # << >>
    /\ LET cs == OnChildError(ClientState)
       IN  /\ SetClient(cs)
           /\ call' = Inside(call, cs)
    /\ UNCHANGED <<orch_vars, fn_vars>>

\* Variant: one retry more.
WillRetry_Again(attempt) == attempt < max_retries

\* `attempt < self.max_retries - 1` of the except clauses.
WillRetry(attempt) == attempt < max_retries - 1

\* The except clauses of the retry loop (lines 117-188 and 219-272): sleep
\* and go round again, or raise.  The sleep (1 to 2 s) is below the unit of
\* time.
HandleError ==
    /\ call.st = "caught"
    /\ LET sc == status_code(call.exc.response)
           message == IF call.exc.kind # "http" THEN "sanitized"
                      ELSE IF sc \in {429, 503} THEN "api error"
                      ELSE IF sc = None THEN "connection error"
                      ELSE "api error"
       IN  call' = IF WillRetry(call.attempt)
                   THEN [call EXCEPT !.st = "attempt", !.attempt = @ + 1,
                                     !.failed = @ + 1, !.exc = NoExc]
                   ELSE [call EXCEPT !.st = "raised", !.failed = @ + 1,
                                     !.error = message,
                                     !.leaked = IF call.exc.kind = "http" THEN {}
                                                ELSE Sanitize(call.exc.msg)]
    /\ UNCHANGED <<key_cooldown, key_failures, current_key_index, stack, selection>>
    /\ UNCHANGED <<orch_vars, fn_vars>>

\* Time passes between two logical calls: the client is idle, the record of
\* the call that returned last is dropped.
Tick ==
    /\ call.st \in {"idle", "ok", "raised"}
    /\ \E k \in Keys : key_cooldown[k] > 0
    /\ key_cooldown' = Elapse(key_cooldown, 1)
    /\ call' = NoCall
    /\ UNCHANGED <<key_failures, current_key_index, stack, selection>>
    /\ UNCHANGED <<orch_vars, fn_vars>>

NextClient ==
    \/ \E kind \in {"single", "batch"} : StartCall(kind)
    \/ Attempt
    \/ Request
    \/ Propagate
    \/ HandleError
    \/ Tick

SpecClient == ClientOnlyInit /\ [][NextClient]_vars

----------------------------------------------------------------------------
(* Functions of the program called on their own, on arguments drawn from    *)
(* bounded sets                                                              *)

\* Rows handed to _should_use_llm: the urgency score is a column of its own,
\* whatever demand and inventory are.
ClassifierRows ==
    { [projected_30d_demand |-> di[1], current_inventory |-> di[2],
       days_to_expiry |-> e, urgency_score |-> u] :
        di \in {<<10, 10>>, <<10, 9>>, <<10, 11>>},
        e \in {60, 61, 999},
        u \in {Fraction(2, 1), Fraction(3, 2), Fraction(149, 100), Fraction(0, 1)} }

ClassifierCalls == { [name |-> "_should_use_llm", site_row |-> row] : row \in ClassifierRows }

\* The orchestrator after __init__ with n credentials configured and the
\* switches given, its failure counter at `count`; the client as constructed.
Constructed(n, batch, par, sel, count) ==
    /\ site_features = FeatureTable
    /\ cfg = [configured_keys |-> n,
              llm_available |-> ~GeminiClientRaises(n),
              use_batch_api |-> batch /\ ~GeminiClientRaises(n),
              use_parallel |-> par, use_selective_llm |-> sel]
    /\ pc = "idle"
    /\ sites_list = << >>
    /\ llm_sites = << >>
    /\ rules_sites = << >>
    /\ results = EmptyBag
    /\ llm_failure_count = count
    /\ batch_idx = 0
    /\ sleeping = FALSE
    /\ tasks = IdleTasks
    /\ rate_limiter = MAX_CONCURRENT_REQUESTS
    /\ call_log = [s \in SiteIds |-> NotCalled]
    /\ key_cooldown = [k \in Keys |-> 0]
    /\ key_failures = [k \in Keys |-> 0]
    /\ current_key_index = 0
    /\ stack = << >>
    /\ call = NoCall
    /\ selection = NoSelection

\* Batch responses for the sites 1..BATCH_API_SIZE: up to MaxEntries
\* entries in any order, each echoing a site of the batch, another site, or
\* no site id.
Responses ==
    UNION { [1..n -> { Entry(id, p) : id \in {None} \cup 1..(BATCH_API_SIZE + 1),
                                      p \in {PGood, PKeep, PAbsent} }] : n \in 0..MaxEntries }

ParseBatchCalls ==
    { [name |-> "_parse_batch_response", entries |-> es,
       site_ids |-> [i \in 1..BATCH_API_SIZE |-> i]] : es \in Responses }

\* Inputs of optimize_depot_allocation.  A site asks for 5 and holds
\* nothing on record, asks for 5 and holds 3, or asks for 2 and holds 3.
SiteCases == {<<5, None>>, <<5, 3>>, <<2, 3>>}

\* A depot serves every site within 3 days, or within 5 days, or within 5
\* days all sites but the first; it holds 0, 3 or 6 units.
LeadCases ==
    { [s \in 1..NumDepotSites |-> 3], [s \in 1..NumDepotSites |-> 5],
      [s \in 2..NumDepotSites |-> 5] }

\* No shipping costs, or a cost of 30 from the first depot.
CostCases == { << >>, [d \in {1} |-> [s \in 1..NumDepotSites |-> 30]] }

DepotCalls ==
    { [name |-> "optimize_depot_allocation",
       site_demands |-> [s \in 1..NumDepotSites |-> sc[s][1]],
       site_inventory |-> [s \in { s \in 1..NumDepotSites : sc[s][2] # None } |-> sc[s][2]],
       depot_inventory |-> di,
       lead_times |-> lt,
       shipping_costs |-> co] :
        sc \in [1..NumDepotSites -> SiteCases],
        di \in [1..NumDepots -> {0, 3, 6}],
        lt \in [1..NumDepots -> LeadCases],
        co \in CostCases }

\* Rows handed to recommend_resupply: demand and inventory around
\* demand = inventory + safety stock, days_to_expiry around the threshold.
RuleRows ==
    { Features(di[1], di[2], e) :
        di \in {<<100, 50>>, <<100, 80>>, <<100, 81>>, <<100, 82>>, <<7, 5>>, <<7, 6>>,
                <<7, 7>>, <<50, 60>>, <<50, 100>>, <<0, 0>>},
        e \in {25, EXPIRY_THRESHOLD_DAYS - 1, EXPIRY_THRESHOLD_DAYS,
               EXPIRY_THRESHOLD_DAYS + 1, 60} }

RuleCalls == { [name |-> "recommend_resupply", site_features |-> row] : row \in RuleRows }

\* The call with demand {A: 100, B: 20}, inventory {A: 50, B: 30}, one depot
\* holding 60 that serves both sites in 5 days, and no shipping costs (A and
\* B are the sites 1 and 2).
DepotExample ==
    [name |-> "optimize_depot_allocation",
     site_demands |-> <<100, 20>>,
     site_inventory |-> <<50, 30>>,
     depot_inventory |-> <<60>>,
     lead_times |-> << <<5, 5>> >>,
     shipping_costs |-> << >>]

\* Two sites that ask for 5 each and hold nothing; depot 1 holds 3 and
\* serves them in 1 day at a cost of 14, depot 2 holds 6 and serves them in 2
\* days at a cost of 4: 1 + 14 * 0.1 against 2 + 4 * 0.1.
DepotTie ==
    [name |-> "optimize_depot_allocation",
     site_demands |-> <<5, 5>>,
     site_inventory |-> << >>,
     depot_inventory |-> <<3, 6>>,
     lead_times |-> << <<1, 1>>, <<2, 2>> >>,
     shipping_costs |-> << <<14, 14>>, <<4, 4>> >>]

\* Sites that ask for 4 and 2 and hold nothing; depot 1 is 2 short on
\* record, depot 2 holds 3; both serve both sites.
DepotShort ==
    [name |-> "optimize_depot_allocation",
     site_demands |-> <<4, 2>>,
     site_inventory |-> << >>,
     depot_inventory |-> <<-2, 3>>,
     lead_times |-> << <<1, 1>>, <<2, 2>> >>,
     shipping_costs |-> << >>]

\* Lists of results handed to Step 7 of run: the sites in the order of the
\* list, each with what was decided for it (action, quantity) and the
\* inventory it holds.  No quantity is validated before it gets here.
RunResultCases ==
    { RunResult(0, a, qi[1], qi[2]) :
        a \in {"resupply", "no_resupply"}, qi \in {<<-30, 0>>, <<5, 10>>, <<40, 0>>} }

RunResultLists ==
    UNION { { [i \in 1..n |-> [rs[i] EXCEPT !.site_id = i]] : rs \in [1..n -> RunResultCases] } :
            n \in 1..MaxResults }

RunPlanCalls == { [name |-> "depot_optimization", results |-> rs] : rs \in RunResultLists }

FnInit ==
    /\ fn_result = NotReturned
    /\ \/ /\ fn_call \in ClassifierCalls
          /\ \E n \in {0, NumKeys}, sel \in BOOLEAN, count \in 0..(max_llm_failures + 1) :
                Constructed(n, TRUE, TRUE, sel, count)
       \/ /\ fn_call \in ParseBatchCalls
          /\ Constructed(NumKeys, TRUE, TRUE, TRUE, 0)
       \/ /\ fn_call \in DepotCalls \cup {DepotExample, DepotTie, DepotShort}
          /\ Constructed(NumKeys, TRUE, TRUE, TRUE, 0)
       \/ /\ fn_call \in RuleCalls
          /\ Constructed(NumKeys, TRUE, TRUE, TRUE, 0)
       \/ /\ fn_call \in RunPlanCalls
          /\ Constructed(NumKeys, TRUE, TRUE, TRUE, 0)

\* self._should_use_llm(row)
Call_should_use_llm ==
    /\ fn_call.name = "_should_use_llm" /\ ~fn_result.returned
    /\ fn_result' = Returns(_should_use_llm(fn_call.site_row, llm_failure_count))
    /\ UNCHANGED <<orch_vars, client_vars, fn_call>>

\* self._parse_batch_response(response, site_ids) at line 218, and what
\* _process_sites_batch_llm (lines 138-159) makes of the list.
Call_parse_batch_response ==
    /\ fn_call.name = "_parse_batch_response" /\ ~fn_result.returned
    /\ LET parsed == _parse_batch_response(fn_call.entries, fn_call.site_ids)
       IN  fn_result' = Returns([parsed |-> parsed,
                processed |-> _process_sites_batch_llm(fn_call.site_ids, FALSE, parsed)[1]])
    /\ UNCHANGED <<orch_vars, client_vars, fn_call>>

\* self.depot_optimizer.optimize_depot_allocation(...)
Call_optimize_depot_allocation ==
    /\ fn_call.name = "optimize_depot_allocation" /\ ~fn_result.returned
    /\ fn_result' = Returns(optimize_depot_allocation(
                        fn_call.site_demands, fn_call.depot_inventory,
                        fn_call.site_inventory, fn_call.lead_times,
                        fn_call.shipping_costs))
    /\ UNCHANGED <<orch_vars, client_vars, fn_call>>

\* recommend_resupply(site_features), called again and again on the same
\* row: the function assigns to locals only.
Call_recommend_resupply ==
    /\ fn_call.name = "recommend_resupply"
    /\ fn_result.returned => fn_result.value.calls < MaxCalls
    /\ fn_result' = Returns([result |-> recommend_resupply(fn_call.site_features),
                             calls |-> IF fn_result.returned
                                       THEN fn_result.value.calls + 1 ELSE 1])
    /\ UNCHANGED <<orch_vars, client_vars, fn_call>>

\* run, lines 470-484: Step 7 on the results of the run.
Call_depot_optimization ==
    /\ fn_call.name = "depot_optimization" /\ ~fn_result.returned
    /\ fn_result' = Returns(depot_optimization(fn_call.results))
    /\ UNCHANGED <<orch_vars, client_vars, fn_call>>

NextFn ==
    \/ Call_depot_optimization
    \/ Call_should_use_llm
    \/ Call_parse_batch_response
    \/ Call_optimize_depot_allocation
    \/ Call_recommend_resupply

SpecFn == FnInit /\ [][NextFn]_vars

----------------------------------------------------------------------------
(* One Orchestrator, configured without parallel dispatch, whose run is     *)
(* called again and again                                                    *)

RunsInit ==
    /\ \E batch \in BOOLEAN, sel \in BOOLEAN : Constructed(NumKeys, batch, FALSE, sel, 0)
    /\ fn_call = NoFnCall
    /\ fn_result = NotReturned

\* run returns: its locals are gone (and with them the history of its
\* calls); what __init__ set on the instance stays as the run left it.
\* Nothing in run or after it assigns llm_failure_count (the assignments are
\* at lines 43, 158, 163, 184 and 197).
RunReturn ==
    /\ pc = "done"
    /\ llm_failure_count <= MaxCarried
    /\ pc' = "idle"
    /\ sites_list' = << >>
    /\ llm_sites' = << >>
    /\ rules_sites' = << >>
    /\ results' = EmptyBag
    /\ call_log' = [s \in SiteIds |-> NotCalled]
    /\ UNCHANGED <<site_features, cfg, llm_failure_count, batch_idx, sleeping, tasks,
                   rate_limiter>>
    /\ UNCHANGED <<client_vars, fn_vars>>

NextRuns ==
    \/ RunStart
    \/ Classify
    \/ ProcessBatch
    \/ BatchDelay
    \/ ProcessSequential
    \/ RulesSequential
    \/ RunReturn

SpecRuns == RunsInit /\ [][NextRuns]_vars

----------------------------------------------------------------------------
(* Properties of the functions *)

\* C17: with selective routing enabled and the reasoning client available,
\* _should_use_llm returns true exactly when urgency_score >= 1.5 or
\* days_to_expiry <= 60 or current_inventory < projected_30d_demand; with
\* urgency_score 2.0 it returns true whatever the other fields are.
C17_SelectiveClassifier ==
    ( /\ fn_call.name = "_should_use_llm" /\ fn_result.returned
      /\ cfg.use_selective_llm /\ cfg.llm_available ) =>
        LET row == fn_call.site_row
        IN  /\ fn_result.value <=>
                  \/ 2 * row.urgency_score.num >= 3 * row.urgency_score.den
                  \/ row.days_to_expiry <= LLM_EXPIRY_THRESHOLD
                  \/ row.current_inventory < row.projected_30d_demand
            /\ row.urgency_score = Fraction(2, 1) => fn_result.value

\* A row with urgency 2.0 and nothing else calling for the reasoning lane,
\* sent to it while the failure counter is beyond max_llm_failures.
C17_Witness ==
    /\ fn_call.name = "_should_use_llm" /\ fn_result.returned
    /\ cfg.use_selective_llm /\ cfg.llm_available
    /\ fn_call.site_row.urgency_score = Fraction(2, 1)
    /\ fn_call.site_row.days_to_expiry > LLM_EXPIRY_THRESHOLD
    /\ fn_call.site_row.current_inventory >= fn_call.site_row.projected_30d_demand
    /\ llm_failure_count > max_llm_failures
    /\ fn_result.value

\* C15: the list _parse_batch_response returns has one element per site id
\* asked; element i is made from a response entry echoing site_ids[i]
\* (wherever it stands and whatever other entries there are), or is the
\* fallback no_resupply / 0 / 0.3 when no entry echoes it; and the Decision of
\* site_ids[i] carries the values of element i.
C15_BatchMatchedById ==
    ( fn_call.name = "_parse_batch_response" /\ fn_result.returned ) =>
        LET es == fn_call.entries
            ids == fn_call.site_ids
            out == fn_result.value.parsed
            decisions == fn_result.value.processed
        IN  /\ Len(out) = Len(ids)
            /\ Len(decisions) = Len(ids)
            /\ \A i \in 1..Len(ids) :
                 LET js == { j \in 1..Len(es) : es[j].site_id = ids[i] }
                 IN  /\ js = {} =>
                          /\ out[i].action = "no_resupply"
                          /\ out[i].quantity = 0 /\ out[i].confidence = 3
                     /\ js # {} =>
                          \E j \in js :
                             IF es[j].payload.sr = "full" THEN out[i] = es[j].payload
                             ELSE /\ out[i].action = "no_resupply"
                                  /\ out[i].quantity = 0 /\ out[i].confidence = 5
                     /\ decisions[i] = Decision(ids[i], out[i], TRUE)

\* A response that lists the second site first, then a site that was not
\* asked, then the first site, with different payloads.
C15_Witness ==
    /\ fn_call.name = "_parse_batch_response" /\ fn_result.returned
    /\ Len(fn_call.entries) = 3
    /\ fn_call.entries[1] = Entry(fn_call.site_ids[2], PGood)
    /\ fn_call.entries[2].site_id = BATCH_API_SIZE + 1
    /\ fn_call.entries[3] = Entry(fn_call.site_ids[1], PKeep)
    /\ fn_result.value.parsed[1] = PKeep
    /\ fn_result.value.parsed[2] = PGood

\* The quantities of the allocation edges of site s, summed.
RECURSIVE AllocatedTo(_, _)
AllocatedTo(s, allocations) ==
    IF allocations = << >> THEN 0
    ELSE (IF Head(allocations).site_id = s THEN Head(allocations).quantity ELSE 0)
            + AllocatedTo(s, Tail(allocations))

\* C20: in the plan optimize_depot_allocation returns, the edges of a site
\* add up to at most max(0, demand - inventory), and a site whose net demand
\* is 0 has no edge and no unmet_demand entry.
C20_AllocationWithinNetDemand ==
    ( fn_call.name = "optimize_depot_allocation" /\ fn_result.returned ) =>
        \A s \in DOMAIN fn_call.site_demands :
            LET inv == IF s \in DOMAIN fn_call.site_inventory
                       THEN fn_call.site_inventory[s] ELSE 0
                net == Max(0, fn_call.site_demands[s] - inv)
                plan == fn_result.value
            IN  /\ AllocatedTo(s, plan.allocations) <= net
                /\ net = 0 =>
                      /\ \A i \in 1..Len(plan.allocations) : plan.allocations[i].site_id # s
                      /\ s \notin DOMAIN plan.unmet_demand

\* A plan in which a site holding 3 of the 5 it asks for receives exactly 2
\* from a depot that holds more, next to a site that needs nothing.
C20_Witness ==
    /\ fn_call.name = "optimize_depot_allocation" /\ fn_result.returned
    /\ fn_call.site_demands[1] = 2 /\ fn_call.site_inventory[1] = 3
    /\ fn_call.site_demands[2] = 5 /\ 2 \in DOMAIN fn_call.site_inventory
    /\ \A d \in DOMAIN fn_call.depot_inventory : fn_call.depot_inventory[d] = 6
    /\ AllocatedTo(2, fn_result.value.allocations) = 2
    /\ Len(fn_result.value.allocations) = 1

\* The quantities of all allocation edges, summed.
RECURSIVE Quantities(_)
Quantities(allocations) ==
    IF allocations = << >> THEN 0
    ELSE Head(allocations).quantity + Quantities(Tail(allocations))

\* C21: in the plan optimize_depot_allocation returns, total_allocated plus
\* the unmet_demand values add up to the sum over the sites of
\* max(0, demand - inventory), and total_allocated is the sum of the
\* quantities of the allocation edges.
C21_Conservation ==
    ( fn_call.name = "optimize_depot_allocation" /\ fn_result.returned ) =>
        LET plan == fn_result.value
            net == [s \in DOMAIN fn_call.site_demands |->
                      Max(0, fn_call.site_demands[s]
                               - (IF s \in DOMAIN fn_call.site_inventory
                                  THEN fn_call.site_inventory[s] ELSE 0))]
        IN  /\ plan.total_allocated
                  + SumOver(plan.unmet_demand, DOMAIN plan.unmet_demand)
                 = SumOver(net, DOMAIN net)
            /\ plan.total_allocated = Quantities(plan.allocations)

\* A plan with a site served in part and a site that no depot can serve.
C21_Witness ==
    /\ fn_call.name = "optimize_depot_allocation" /\ fn_result.returned
    /\ Len(fn_result.value.allocations) = 1
    /\ fn_result.value.allocations[1].site_id = 1
    /\ fn_result.value.total_allocated = 3
    /\ DOMAIN fn_result.value.unmet_demand = {1, 2}
    /\ fn_result.value.unmet_demand[1] = 2
    /\ fn_result.value.unmet_demand[2] = 5

\* C22: optimization_score is 100 * total_allocated / (sum of the net
\* demands) when that sum is positive and 0 otherwise; the call of
\* DepotExample returns the single edge D1 -> A of 50, nothing for B,
\* total_allocated 50, an empty unmet_demand and the score 100.
C22_OptimizationScore ==
    ( fn_call.name = "optimize_depot_allocation" /\ fn_result.returned ) =>
        LET plan == fn_result.value
            score == plan.optimization_score
            net == [s \in DOMAIN fn_call.site_demands |->
                      Max(0, fn_call.site_demands[s]
                               - (IF s \in DOMAIN fn_call.site_inventory
                                  THEN fn_call.site_inventory[s] ELSE 0))]
            total == SumOver(net, DOMAIN net)
        IN  /\ score.den > 0
            /\ total > 0 => score.num * total = 100 * plan.total_allocated * score.den
            /\ total <= 0 => score.num = 0
            /\ fn_call = DepotExample =>
                  /\ Len(plan.allocations) = 1
                  /\ plan.allocations[1].depot_id = 1
                  /\ plan.allocations[1].site_id = 1
                  /\ plan.allocations[1].quantity = 50
                  /\ plan.total_allocated = 50
                  /\ DOMAIN plan.unmet_demand = {}
                  /\ score.num = 100 * score.den

\* The example has been computed.
C22_Witness ==
    /\ fn_call = DepotExample /\ fn_result.returned
    /\ fn_result.value.total_allocated = 50
    /\ fn_result.value.optimization_score = Fraction(5000, 50)

\* max(0, demand - inventory) of site s in the call c.
NetOf(c, s) == Max(0, c.site_demands[s] - Get(c.site_inventory, s, 0))

\* Site s comes before site t in descending net demand, input order
\* deciding between equal net demands.
Before(c, s, t) == NetOf(c, s) > NetOf(c, t) \/ (NetOf(c, s) = NetOf(c, t) /\ s < t)

\* What the edges of the sites that come before s take from depot d.
DrawnBefore(c, allocations, s, d) ==
    SumOver([i \in 1..Len(allocations) |-> allocations[i].quantity],
            { i \in 1..Len(allocations) :
                allocations[i].depot_id = d /\ Before(c, allocations[i].site_id, s) })

\* C33: in the plan optimize_depot_allocation returns, the edges stand in
\* descending net demand of their sites, equal net demands in input order;
\* a site with a positive net demand has an edge exactly when some depot
\* with a lead time to it still holds something after the sites before it
\* were served, and then from the depot with the lowest score (lead time +
\* 0.1 x cost as the program computes it) among those, the first of them in
\* input order when scores are equal, for the smaller of what is left there
\* and the net demand.
C33_GreedyOrder ==
    ( fn_call.name = "optimize_depot_allocation" /\ fn_result.returned ) =>
        LET c == fn_call
            a == fn_result.value.allocations
            rem(s, d) == c.depot_inventory[d] - DrawnBefore(c, a, s, d)
            cands(s) == { d \in DOMAIN c.depot_inventory :
                            /\ rem(s, d) > 0
                            /\ d \in DOMAIN c.lead_times
                            /\ s \in DOMAIN c.lead_times[d] }
            score(s, d) == Score(d, s, c.lead_times, c.shipping_costs)
        IN  /\ \A i, j \in 1..Len(a) : i < j => Before(c, a[i].site_id, a[j].site_id)
            /\ \A s \in DOMAIN c.site_demands :
                  NetOf(c, s) > 0 =>
                     IF cands(s) = {}
                     THEN \A i \in 1..Len(a) : a[i].site_id # s
                     ELSE \E i \in 1..Len(a) :
                            /\ a[i].site_id = s
                            /\ a[i].depot_id \in cands(s)
                            /\ \A o \in cands(s) :
                                  \/ Lower(score(s, a[i].depot_id), score(s, o))
                                  \/ /\ score(s, a[i].depot_id) = score(s, o)
                                     /\ a[i].depot_id <= o
                            /\ a[i].quantity = Min(rem(s, a[i].depot_id), NetOf(c, s))

\* The plan of DepotTie: site 1 before site 2, both from depot 2, whose
\* score is the lower double.
C33_Witness ==
    /\ fn_call = DepotTie /\ fn_result.returned
    /\ Len(fn_result.value.allocations) = 2
    /\ fn_result.value.allocations[1].site_id = 1
    /\ fn_result.value.allocations[1].depot_id = 2
    /\ fn_result.value.allocations[1].quantity = 5
    /\ fn_result.value.allocations[2].site_id = 2
    /\ fn_result.value.allocations[2].depot_id = 2
    /\ fn_result.value.allocations[2].quantity = 1

\* What the first n edges take from depot d.
Drawn(allocations, n, d) ==
    SumOver([i \in 1..n |-> allocations[i].quantity],
            { i \in 1..n : allocations[i].depot_id = d })

\* C34: in the plan optimize_depot_allocation returns, after every edge the
\* edges so far have taken from a depot whose inventory was not negative at
\* most that inventory; and excess_inventory has an entry for exactly the
\* depots of which something is left, the inventory less what all edges took.
C34_NoOverdraw ==
    ( fn_call.name = "optimize_depot_allocation" /\ fn_result.returned ) =>
        LET a == fn_result.value.allocations
            excess == fn_result.value.excess_inventory
            left(d) == fn_call.depot_inventory[d] - Drawn(a, Len(a), d)
        IN  /\ \A d \in DOMAIN fn_call.depot_inventory :
                  /\ fn_call.depot_inventory[d] >= 0 =>
                        \A n \in 0..Len(a) : Drawn(a, n, d) <= fn_call.depot_inventory[d]
                  /\ d \in DOMAIN excess <=> left(d) > 0
                  /\ d \in DOMAIN excess => excess[d] = left(d)
            /\ DOMAIN excess \subseteq DOMAIN fn_call.depot_inventory
            /\ \A i \in 1..Len(a) : a[i].depot_id \in DOMAIN fn_call.depot_inventory

\* A plan in which two edges empty a depot while another depot keeps
\* something.
C34_Witness ==
    /\ fn_call.name = "optimize_depot_allocation" /\ fn_result.returned
    /\ \E d, o \in DOMAIN fn_call.depot_inventory :
          /\ fn_call.depot_inventory[d] > 0
          /\ Drawn(fn_result.value.allocations, Len(fn_result.value.allocations), d)
                = fn_call.depot_inventory[d]
          /\ Cardinality({ i \in 1..Len(fn_result.value.allocations) :
                             fn_result.value.allocations[i].depot_id = d }) = 2
          /\ o \in DOMAIN fn_result.value.excess_inventory

\* The edges of site s in a plan.
EdgesOf(allocations, s) == { i \in 1..Len(allocations) : allocations[i].site_id = s }

\* C37: in the plan optimize_depot_allocation returns no site has two
\* edges; a site whose edge is below its net demand has the rest in
\* unmet_demand, and a site whose edge covers its net demand has no
\* unmet_demand entry.
C37_OneEdgePerSite ==
    ( fn_call.name = "optimize_depot_allocation" /\ fn_result.returned ) =>
        LET a == fn_result.value.allocations
            unmet == fn_result.value.unmet_demand
        IN  \A s \in DOMAIN fn_call.site_demands :
                /\ Cardinality(EdgesOf(a, s)) <= 1
                /\ \A i \in EdgesOf(a, s) :
                      /\ a[i].quantity <= NetOf(fn_call, s)
                      /\ a[i].quantity < NetOf(fn_call, s) =>
                            /\ s \in DOMAIN unmet
                            /\ unmet[s] = NetOf(fn_call, s) - a[i].quantity
                      /\ a[i].quantity = NetOf(fn_call, s) => s \notin DOMAIN unmet

\* A plan in which a site is left short by the depot that serves it while
\* another depot that could serve it keeps inventory.
C37_Witness ==
    /\ fn_call.name = "optimize_depot_allocation" /\ fn_result.returned
    /\ \E i \in 1..Len(fn_result.value.allocations) :
          LET edge == fn_result.value.allocations[i]
          IN  /\ edge.site_id \in DOMAIN fn_result.value.unmet_demand
              /\ \E o \in DOMAIN fn_result.value.excess_inventory :
                    /\ o # edge.depot_id
                    /\ o \in DOMAIN fn_call.lead_times
                    /\ edge.site_id \in DOMAIN fn_call.lead_times[o]

\* C39: in the allocation plan that Step 7 of run computes, every site
\* passed to the optimizer as demand has a result whose action is resupply:
\* no edge of the plan and no entry of unmet_demand is for a site whose
\* result has another action.
C39_OnlyResupplySites ==
    ( fn_call.name = "depot_optimization" /\ fn_result.returned ) =>
        LET rs == fn_call.results
            site_ids == fn_result.value.site_ids
            plan == fn_result.value.plan
            Planned == { site_ids[plan.allocations[i].site_id] :
                            i \in 1..Len(plan.allocations) }
                       \cup { site_ids[p] : p \in DOMAIN plan.unmet_demand }
        IN  /\ \A p \in DOMAIN site_ids :
                  \E i \in 1..Len(rs) :
                      rs[i].site_id = site_ids[p] /\ rs[i].action = "resupply"
            /\ \A i \in 1..Len(rs) :
                  rs[i].action # "resupply" => rs[i].site_id \notin Planned

\* A run whose first site is not resupplied although the quantity decided
\* for it exceeds its inventory, and whose plan has an edge and an unmet
\* demand for the other sites.
C39_Witness ==
    /\ fn_call.name = "depot_optimization" /\ fn_result.returned
    /\ fn_call.results[1].action = "no_resupply"
    /\ fn_call.results[1].quantity > fn_call.results[1].current_inventory
    /\ fn_result.value.plan.allocations # << >>
    /\ DOMAIN fn_result.value.plan.unmet_demand # {}

\* C23: with safety_stock = demand x (multiplier - 1) = demand / 5 (cut to
\* an integer), recommend_resupply returns resupply with quantity
\* max(MIN_ORDER_QUANTITY, demand + safety_stock - inventory) when
\* days_to_expiry < EXPIRY_THRESHOLD_DAYS, otherwise the same when
\* demand > inventory + safety_stock, otherwise no_resupply with quantity 0;
\* so at days_to_expiry = threshold and demand = inventory + safety_stock the
\* result is no_resupply.
C23_RuleTable ==
    ( fn_call.name = "recommend_resupply" /\ fn_result.returned ) =>
        LET f == fn_call.site_features
            demand == f.projected_30d_demand
            inventory == f.current_inventory
            stock == demand \div 5
            quantity == Max(MIN_ORDER_QUANTITY, demand + stock - inventory)
            out == fn_result.value.result
        IN  /\ f.days_to_expiry < EXPIRY_THRESHOLD_DAYS =>
                  out.action = "resupply" /\ out.quantity = quantity
            /\ ( f.days_to_expiry >= EXPIRY_THRESHOLD_DAYS /\ demand > inventory + stock ) =>
                  out.action = "resupply" /\ out.quantity = quantity
            /\ ( f.days_to_expiry >= EXPIRY_THRESHOLD_DAYS /\ demand <= inventory + stock ) =>
                  out.action = "no_resupply" /\ out.quantity = 0

\* C24: for demand 100, inventory 50 and days_to_expiry 60 the safety stock
\* is 20 and recommend_resupply returns resupply with quantity 70.
C24_Example ==
    ( /\ fn_call.name = "recommend_resupply" /\ fn_result.returned
      /\ fn_call.site_features = Features(100, 50, 60) ) =>
        /\ safety_stock(fn_call.site_features.projected_30d_demand) = 20
        /\ fn_result.value.result.action = "resupply"
        /\ fn_result.value.result.quantity = 70

----------------------------------------------------------------------------
(* Properties of the reasoning client *)

\* C5: every result a logical call returns (the single result, each element
\* of a batch result) has action resupply or no_resupply, a quantity that is
\* a natural number and a confidence between 0 and 1 (0..10 tenths).
C5_ResultContract ==
    call.st = "ok" =>
        \A i \in 1..Len(call.result) :
            /\ call.result[i].sr = "full"
            /\ call.result[i].action \in {"resupply", "no_resupply"}
            /\ call.result[i].quantity \in Nat
            /\ call.result[i].confidence \in 0..10

\* C7: with two credentials, when a logical call has just ended in which
\* credential 1 answered 429 only and credential 2 answered successfully, the
\* call returned credential 2's result, credential 1 is still in cooldown and
\* its failure count is at least 1.
C7_RotationOn429 ==
    ( /\ Len(api_keys) = 2
      /\ call.st \in {"ok", "raised"}
      /\ call.seen[1] = "429"
      /\ call.seen[2] = "ok" ) =>
        /\ call.st = "ok" /\ call.via = 2
        /\ key_failures[1] >= 1
        /\ key_cooldown[1] > 0

\* C8: a selection returns a configured credential; it returns one that was
\* out of cooldown whenever there was one; when there was none, every
\* cooldown is reset by the selection.
C8_Selection ==
    selection.n > 0 =>
        /\ selection.key \in Range(api_keys)
        /\ selection.available # {} => selection.key \in selection.available
        /\ selection.available = {} => \A k \in Keys : selection.cooldown[k] = 0

\* A selection made while one credential was in cooldown and another was not.
C8_Witness ==
    /\ selection.n > 0
    /\ selection.available # {}
    /\ selection.available # Range(api_keys)

\* The credential that follows `key` in configured order, cyclically, among
\* the credentials `among`.
NextAfter(key, among) ==
    LET later == { k \in among : k > key }
        from == IF later = {} THEN among ELSE later
    IN  CHOOSE k \in from : \A j \in from : k <= j

\* C31: every selection after the first returns, among the credentials that
\* were out of cooldown (all of them when there was none), the one that
\* follows the credential selected before it in configured order; and the
\* credential of a swap retry is the first available one after the credential
\* that answered 429 / 503.
C31_RoundRobin ==
    LET among == IF selection.available = {} THEN Range(api_keys) ELSE selection.available
    IN  /\ ( selection.n > 0 /\ selection.prev # 0 ) =>
               selection.key = NextAfter(selection.prev, among)
        /\ ( /\ Len(stack) >= 2
             /\ stack[Len(stack)].handler = "none"
             /\ stack[Len(stack) - 1].handler = "swap" ) =>
               stack[Len(stack)].key = NextAfter(stack[Len(stack) - 1].key, among)

\* C38: with exactly one credential configured, every selection returns that
\* credential, with its cooldown cleared when it had not elapsed; no frame of
\* _call_gemini_api waits for a retry with another credential; and every
\* frame, hence every request, carries that credential, also when the
\* selection found it in cooldown.
C38_SingleCredential ==
    Len(api_keys) = 1 =>
        /\ selection.n > 0 =>
              /\ selection.key = api_keys[1]
              /\ selection.cooldown[api_keys[1]] = 0
        /\ \A i \in 1..Len(stack) :
              /\ stack[i].key = api_keys[1]
              /\ stack[i].handler \notin {"swap", "timeout"}
        /\ Len(stack) <= 1 \/ stack[Len(stack) - 1].handler \in {"latest", "fallback"}
        /\ call.via \in {0, api_keys[1]}

\* The one credential was in cooldown when it was selected, and the request
\* of the call is about to be sent with it.
C38_Witness ==
    /\ Len(api_keys) = 1
    /\ selection.n > 0 /\ selection.available = {}
    /\ call.st = "calling"
    /\ Len(stack) = 1 /\ stack[1].key = api_keys[1] /\ stack[1].handler = "none"
    /\ call.mark.n > 0

\* C9: while every credential asked in this logical call answers 429 or 503
\* or times out, one _call_gemini_api sends no two requests with the same
\* credential and model.
C9_OneRequestPerCredential ==
    ( \A k \in Keys : call.seen[k] \in {NotAsked, "429", "transient"} ) =>
        \A i, j \in 1..Len(call.reqs) : i # j => call.reqs[i] # call.reqs[j]

\* The request of the frame on top is answered by a timeout in this step:
\* _mark_key_failure runs with no response and no status.
TimedOut ==
    /\ call.st = "calling" /\ call.exc.kind = "none" /\ stack # << >>
    /\ call'.mark # call.mark
    /\ call'.mark.response = None

\* C32: when a request times out, its credential is in cooldown afterwards;
\* with more than one credential the same model is requested again in a new
\* frame with another credential, the frame that timed out waiting for it;
\* the models tried grow by none but the one that timed out; and a request
\* that succeeds ends the call with its result, whatever frames wait for it.
C32_TimeoutSwap ==
    [][ LET top == stack[Len(stack)]
        IN  /\ TimedOut =>
                  /\ key_cooldown'[top.key] > 0
                  /\ call'.tried = call.tried \cup {top.model}
                  /\ Len(api_keys) > 1 =>
                        /\ Len(stack') = Len(stack) + 1
                        /\ stack'[Len(stack)].handler = "timeout"
                        /\ stack'[Len(stack')].key # top.key
                        /\ stack'[Len(stack')].model = top.model
            /\ ( call.st = "calling" /\ call'.st = "ok" ) =>
                  /\ stack' = << >>
                  /\ call'.exc = NoExc
                  /\ call'.via = top.key ]_vars

\* C35: a batch call one of whose responses could not be parsed, or had no
\* sites array, does not return: it raises (and _process_sites_batch_llm
\* then decides every site of the batch by the rules), and it keeps no
\* result.
C35_UnparsableBatchRaises ==
    ( call.kind = "batch" /\ call.unparsed ) =>
        /\ call.st # "ok"
        /\ call.result = << >>

\* C10: a logical call invokes _call_gemini_api at most max_retries times;
\* it raises only after max_retries failed invocations; it returns the
\* result of the first invocation that succeeds.
C10_AtMostMaxRetries ==
    /\ call.low_calls <= max_retries
    /\ call.st = "raised" => call.low_calls = max_retries /\ call.failed = max_retries
    /\ call.st = "ok" => call.low_calls = call.failed + 1

\* A batch call that raised after its second failure, credential 1 having
\* answered 503 or timed out.
C10_Witness ==
    /\ call.st = "raised" /\ call.kind = "batch"
    /\ call.failed = max_retries
    /\ call.seen[1] = "transient"

\* C11: the last failure marked for a credential raised its failure count by
\* one and set its cooldown to 60 s after a 429, 30 s after a 503 and 10 s
\* after any other status or a timeout.
C11_CooldownByStatus ==
    call.mark.n > 0 =>
        /\ call.mark.after = call.mark.before + 1
        /\ call.mark.cooldown = IF call.mark.response = 429 THEN 6
                                ELSE IF call.mark.response = 503 THEN 3
                                ELSE 1

\* C12: _call_gemini_api lets the 404 of the configured model out only after
\* the model without its "-latest" suffix and every other model of
\* fallback_models were tried, and never tries more than 1 + 1 +
\* Len(fallback_models) models.
C12_FallbackOn404 ==
    /\ ( call.st = "caught" /\ call.exc = HTTPError(404) ) =>
           /\ EndsWithLatest(GEMINI_MODEL) => StripLatest(GEMINI_MODEL) \in call.tried
           /\ \A i \in 1..Len(fallback_models) : fallback_models[i] \in call.tried
    /\ Cardinality(call.tried) <= 1 + 1 + Len(fallback_models)

----------------------------------------------------------------------------
(* Properties of one run *)

\* Decisions of site s in the merged results, counted with multiplicity.
DecisionsOf(s) ==
    BagCardinality([d \in { d \in BagToSet(results) : d.site_id = s } |-> results[d]])

BatchMates(s) ==
    LET i == CHOOSE i \in 1..Len(llm_sites) : llm_sites[i] = s
    IN  { llm_sites[j] : j \in { j \in 1..Len(llm_sites) :
            (j - 1) \div BATCH_API_SIZE = (i - 1) \div BATCH_API_SIZE } }

\* C2: in batch dispatch, every site of a batch whose call raised has the
\* rule engine's Decision (llm_used false) in the merged results, and every
\* site of a batch whose call returned usable entries keeps the Decision
\* made from its own entry, whatever happened to the other batches.
C2_BatchDegradation ==
    Mode = "batch" =>
        \A s \in SiteIds :
            /\ call_log[s] = Raised =>
                 /\ BagIn(_process_site_with_rules(s), results)
                 /\ \A d \in BagToSet(results) : d.site_id = s => ~d.llm_used
            /\ ( /\ call_log[s].st = "returned"
                 /\ \A t \in BatchMates(s) :
                        Readable(_parse_batch_entry(call_log[t].payload)) ) =>
                 BagIn(Decision(s, _parse_batch_entry(call_log[s].payload), TRUE),
                       results)

\* A finished batch run in which an earlier batch raised and a later batch
\* was answered.
C2_Witness ==
    /\ pc = "done" /\ Mode = "batch"
    /\ \E i, j \in 1..Len(llm_sites) :
         /\ i < j
         /\ call_log[llm_sites[i]] = Raised
         /\ call_log[llm_sites[j]].st = "returned"
         /\ \E d \in BagToSet(results) : d.site_id = llm_sites[j] /\ d.llm_used

\* The reasoning call made for site s is over and its Decision is merged.
Completed(s) ==
    /\ call_log[s].st # "none"
    /\ Mode = "parallel" => tasks[s].st = "done"

\* C3: in individual dispatch (parallel or sequential), a site whose
\* reasoning call raised has the rule engine's Decision, every site whose call
\* returned a usable result keeps the Decision made from it, and the run is
\* never stuck before it is done.
C3_IndividualDegradation ==
    /\ Mode # "batch" =>
         \A s \in SiteIds :
            Completed(s) =>
               /\ call_log[s] = Raised => BagIn(_process_site_with_rules(s), results)
               /\ ( /\ call_log[s].st = "returned"
                    /\ Readable(_parse_response(call_log[s].payload)) ) =>
                    BagIn(Decision(s, _parse_response(call_log[s].payload), TRUE),
                          results)
    /\ pc # "done" => ENABLED Next

\* A finished individual run in which a call raised before a later site's
\* call returned.
C3_Witness ==
    /\ pc = "done" /\ Mode # "batch"
    /\ \E i, j \in 1..Len(llm_sites) :
         /\ i < j
         /\ call_log[llm_sites[i]] = Raised
         /\ call_log[llm_sites[j]].st = "returned"
         /\ \E d \in BagToSet(results) : d.site_id = llm_sites[j] /\ d.llm_used

\* C4: every Decision in the merged results has quantity 0 when its action
\* is no_resupply and at least MIN_ORDER_QUANTITY when it is resupply.
C4_QuantityContract ==
    \A d \in BagToSet(results) :
        /\ d.action = "no_resupply" => d.quantity = 0
        /\ d.action = "resupply" => d.quantity >= MIN_ORDER_QUANTITY

\* A step that sends a site (or a batch of sites) to the reasoning service.
SendToReasoning ==
    \/ ProcessBatch
    \/ ProcessSequential
    \/ \E s \in SiteIds : TaskStart(s)

\* C18: in a run started without any credential, the reasoning client is
\* not available, no site is in the reasoning lane, no reasoning call is
\* made or can be made, every Decision is the rule engine's, and when the run
\* is done every site has its Decision.
C18_RuleOnlyWithoutCredentials ==
    cfg.configured_keys = 0 =>
        /\ ~cfg.llm_available
        /\ llm_sites = << >>
        /\ \A s \in SiteIds : call_log[s] = NotCalled
        /\ ~ENABLED SendToReasoning
        /\ \A d \in BagToSet(results) : ~d.llm_used
        /\ pc = "done" => \A s \in SiteIds :
                             BagIn(_process_site_with_rules(s), results)

\* A finished run without credentials.
C18_Witness ==
    /\ cfg.configured_keys = 0
    /\ pc = "done"
    /\ BagCardinality(results) = NumSites

\* Reasoning calls in flight: tasks inside get_recommendation_justification.
InFlight == { s \in SiteIds : tasks[s].st = "running" }

\* C19: in parallel individual dispatch at most MAX_CONCURRENT_REQUESTS
\* reasoning calls are in flight at any moment, and the semaphore never has
\* fewer than zero permits.
C19_ConcurrencyCeiling ==
    Mode = "parallel" =>
        /\ Cardinality(InFlight) <= MAX_CONCURRENT_REQUESTS
        /\ rate_limiter >= 0

\* The ceiling is reached while a site of the reasoning lane still waits.
C19_Witness ==
    /\ Mode = "parallel"
    /\ Cardinality(InFlight) = MAX_CONCURRENT_REQUESTS
    /\ \E s \in SiteIds : tasks[s].st = "queued"

\* The phases of run in their order: classification, the reasoning
\* dispatch, the rule dispatch, and the merged results complete.
PhaseRank(p) ==
    CASE p = "idle" -> 0
      [] p = "classify" -> 1
      [] p = "llm" -> 2
      [] p = "rules" -> 3
      [] p = "done" -> 4

\* A reasoning call has been issued.
ReasoningStarted ==
    \E s \in SiteIds : call_log[s] # NotCalled \/ tasks[s].st \notin {"none", "queued"}

\* C26: run never goes back to an earlier phase; until classification is
\* over no reasoning call is issued and there is no Decision; a reasoning
\* call is issued only when every site is classified; a rule-lane site is
\* evaluated only when every reasoning-lane site has its Decision; and when
\* the run is done the merged results hold the Decisions of all sites.
C26_PhaseOrder ==
    /\ [][ PhaseRank(pc') >= PhaseRank(pc) ]_vars
    /\ []( /\ PhaseRank(pc) <= 1 => ~ReasoningStarted /\ results = EmptyBag
           /\ ReasoningStarted =>
                 /\ Len(llm_sites) + Len(rules_sites) = NumSites
                 /\ Range(llm_sites) \cup Range(rules_sites) = SiteIds
           /\ PhaseRank(pc) <= 2 => \A s \in Range(rules_sites) : DecisionsOf(s) = 0
           /\ (\E s \in Range(rules_sites) : DecisionsOf(s) > 0) =>
                 \A s \in Range(llm_sites) : DecisionsOf(s) = 1
           /\ PhaseRank(pc) >= 3 => \A s \in Range(llm_sites) : DecisionsOf(s) = 1
           /\ pc = "done" => BagCardinality(results) = NumSites )

\* A parallel run that went through every phase: a reasoning call raised,
\* and the rule lane has been evaluated after it.
C26_Witness ==
    /\ pc = "done" /\ Mode = "parallel"
    /\ \E s \in Range(llm_sites) : call_log[s] = Raised
    /\ \E s \in Range(rules_sites) : DecisionsOf(s) = 1

\* The sites for which a step records a reasoning call.
CalledInStep == { s \in SiteIds : call_log[s] = NotCalled /\ call_log'[s] # NotCalled }

\* The sites of the reasoning lane at the positions lo..hi.
LaneSlice(lo, hi) == { llm_sites[i] : i \in lo..Min(hi, Len(llm_sites)) }

\* C27: in batched dispatch every batch call is made for the next
\* BATCH_API_SIZE sites of the reasoning lane in its order (fewer only when
\* the lane ends), none of which was in a call before; no call is made during
\* the delay; the delay starts after a call exactly when sites remain, and
\* ends without anything else happening; and after the dispatch every site of
\* the lane has been in a call.
C27_Batches ==
    /\ [][ ProcessBatch =>
              /\ ~sleeping
              /\ CalledInStep = LaneSlice(batch_idx + 1, batch_idx + BATCH_API_SIZE)
              /\ \/ Cardinality(CalledInStep) = BATCH_API_SIZE
                 \/ /\ Cardinality(CalledInStep) \in 1..BATCH_API_SIZE
                    /\ batch_idx + Cardinality(CalledInStep) = Len(llm_sites)
              /\ \A s \in SiteIds : call_log[s] # NotCalled => call_log'[s] = call_log[s]
              /\ \A s, u \in CalledInStep : call_log'[s].st = call_log'[u].st
              /\ sleeping' <=> \E s \in Range(llm_sites) : call_log'[s] = NotCalled ]_vars
    /\ [][ (sleeping /\ ~sleeping') => call_log' = call_log /\ results' = results ]_vars
    /\ []( Mode = "batch" =>
             /\ pc = "llm" => batch_idx % BATCH_API_SIZE = 0
             /\ sleeping => /\ \E s \in Range(llm_sites) : call_log[s] = NotCalled
                            /\ \E s \in Range(llm_sites) : call_log[s] # NotCalled
             /\ PhaseRank(pc) >= 3 => \A s \in Range(llm_sites) : call_log[s] # NotCalled )

\* A batched run past its reasoning dispatch that made several calls, the
\* last one for fewer than BATCH_API_SIZE sites.
C27_Witness ==
    /\ Mode = "batch" /\ PhaseRank(pc) >= 3
    /\ Len(llm_sites) > BATCH_API_SIZE
    /\ Len(llm_sites) % BATCH_API_SIZE # 0
    /\ \A s \in Range(llm_sites) : call_log[s] # NotCalled

\* C28: under parallel dispatch no increment of the failure counter is
\* lost: as long as every reasoning call made so far has raised, the counter
\* equals the number of sites whose failure has been handled.
C28_AtomicCounter ==
    ( /\ Mode = "parallel"
      /\ \A s \in SiteIds : call_log[s] \in {NotCalled, Raised} ) =>
        llm_failure_count
            = Cardinality({ s \in Range(llm_sites) :
                              call_log[s] = Raised /\ tasks[s].st = "done" })

\* Sites of the reasoning lane whose call is over, in sequential and batched
\* dispatch: the loop index while the loop runs, the whole lane after it.
Processed ==
    IF pc = "llm" THEN batch_idx
    ELSE IF PhaseRank(pc) >= 3 THEN Len(llm_sites) ELSE 0

\* The call made for the sites starting at position i of the lane failed: it
\* raised, or what it returned was of no use to the orchestrator.
FailedCall(i) ==
    IF Mode = "batch"
    THEN \/ call_log[llm_sites[i]] = Raised
         \/ \E j \in i..Min(i + BATCH_API_SIZE - 1, Len(llm_sites)) :
                ~Readable(_parse_batch_entry(call_log[llm_sites[j]].payload))
    ELSE \/ call_log[llm_sites[i]] = Raised
         \/ ~Readable(_parse_response(call_log[llm_sites[i]].payload))

\* The number of failed calls at the end of the calls made for the first n
\* sites of the lane, each call covering `stride` sites.
RECURSIVE ConsecutiveFailures(_, _)
ConsecutiveFailures(n, stride) ==
    IF n <= 0 THEN 0
    ELSE LET start == ((n - 1) \div stride) * stride + 1
         IN  IF FailedCall(start) THEN 1 + ConsecutiveFailures(start - 1, stride) ELSE 0

\* C29: in sequential and batched dispatch the failure counter equals the
\* number of reasoning calls that failed since the last successful one.
C29_CounterIsConsecutiveFailures ==
    Mode # "parallel" =>
        llm_failure_count
            = ConsecutiveFailures(Processed, IF Mode = "batch" THEN BATCH_API_SIZE ELSE 1)

\* C30: whatever happened in the earlier runs of the Orchestrator, the
\* failure counter is 0 while a run classifies, and the reasoning lane of the
\* run holds the sites that the classifier selects with the counter at 0.
C30_RunScopedCounter ==
    /\ pc = "classify" => llm_failure_count = 0
    /\ PhaseRank(pc) >= 2 =>
          \A s \in SiteIds :
             s \in Range(llm_sites) <=> _should_use_llm(site_features[s], 0)

\* The reasoning call made for site s degraded it to the rule engine: the
\* call raised, or what it returned (for one site of its batch, in batched
\* dispatch) lacks a key of structured_result.
DegradedSite(s) ==
    /\ s \in Range(llm_sites)
    /\ \/ call_log[s].st = "raised"
       \/ /\ call_log[s].st = "returned"
          /\ \E t \in Range(llm_sites) :
                /\ call_log[t].st = "returned"
                /\ ~Readable(_parse_batch_entry(call_log[t].payload))
                /\ Mode = "batch" \/ t = s

\* C36: in a run with selective routing enabled and the reasoning client
\* available, the rule engine answers no_resupply with quantity 0 for every
\* site of the rule lane; hence every Decision of the merged results that
\* the rule engine made and whose action is resupply belongs to a site of
\* the reasoning lane whose call was degraded.
C36_RuleLaneNoResupply ==
    ( cfg.use_selective_llm /\ cfg.llm_available ) =>
        /\ \A s \in Range(rules_sites) :
              /\ _process_site_with_rules(s).action = "no_resupply"
              /\ _process_site_with_rules(s).quantity = 0
        /\ \A d \in BagToSet(results) :
              ( ~d.llm_used /\ d.action = "resupply" ) => DegradedSite(d.site_id)

C36_Witness ==
    /\ cfg.use_selective_llm /\ cfg.llm_available /\ pc = "done"
    /\ \E s \in Range(rules_sites) :
          _process_site_with_rules(s) \in BagToSet(results)
    /\ \E d \in BagToSet(results) :
          ~d.llm_used /\ d.action = "resupply" /\ DegradedSite(d.site_id)

\* C16: in individual dispatch, a site whose call returned a payload that
\* parses but is incomplete (structured_result absent, or lacking one of
\* action, quantity, confidence) has a reasoning-sourced Decision with
\* action no_resupply, quantity 0 and a low confidence.
C16_IncompletePatched ==
    Mode # "batch" =>
        \A s \in SiteIds :
            ( /\ Completed(s)
              /\ call_log[s].st = "returned"
              /\ call_log[s].payload.sr \in {"absent", "partial"} ) =>
                \E d \in BagToSet(results) :
                    /\ d.site_id = s /\ d.llm_used
                    /\ d.action = "no_resupply" /\ d.quantity = 0 /\ d.confidence <= 5

\* C6: while the consecutive-failure counter exceeds max_llm_failures, no
\* site is sent to the reasoning service.
C6_CircuitBreaker ==
    llm_failure_count > max_llm_failures => ~ENABLED SendToReasoning

====
